---- MODULE Spec2Model ----
(***************************************************************************)
(* Model of the meeting summarizer pipeline (vtt_summarizer).              *)
(*                                                                         *)
(* Spec        the three-stage pipeline of MeetingProcessor: individual    *)
(*             phase, transition guard, global phase, report phase, over   *)
(*             an output folder whose files survive from run to run.       *)
(* SpecSelect  KeyframeExtractor candidate analysis (score sort) and       *)
(*             _select_best_candidates.                                    *)
(* SpecFrames  KeyframeExtractor._extract_frames_from_video.               *)
(* SpecScore   KeyframeExtractor._calculate_relevance_score_and_delay.     *)
(* SpecMeeting the try body of MeetingProcessor._process_single_meeting.   *)
(* SpecContext KeyframeExtractor._extract_context_window.                  *)
(* SpecRetry   the throttling retry loop of BedrockClient.                 *)
(* SpecMain    main(): exit codes and interrupts.                          *)
(* SpecReport  the report phase and the summaries handed to the generator. *)
(* SpecFind    MeetingProcessor._find_meeting_folders over a listing.      *)
(* SpecIndividual  the loop of _process_individual_summaries, statement by *)
(*             statement, with the remote calls counted per folder.        *)
(* SpecTemplate  configurable filename templates: format, glob, recover.   *)
(*                                                                         *)
(* File names are sequences of one-character strings, so that formatting   *)
(* a file name, globbing for it and recovering the folder name from it are *)
(* computed the way the code computes them.                                *)
(***************************************************************************)
EXTENDS Integers, Sequences, FiniteSets, TLC

\* ------------------------------------------------------------------ bounds
MaxFolders == 2
MaxRuns == 2
MaxDeletes == 1

\* ----------------------------------------------------------------- strings
\* The placeholder of a filename template is one token of the sequence.
FolderNamePlaceholder == "{folder_name}"
Star == "*"

DigitChars == <<"0", "1", "2", "3", "4", "5", "6", "7", "8", "9">>

\* config.py: processing.individual_summary_filename (default)
individual_summary_filename ==
    <<FolderNamePlaceholder, "_", "s", "u", "m", "m", "a", "r", "y", ".", "m", "d">>

\* config.py: processing.global_summary_filename (default)
global_summary_filename ==
    <<"g", "l", "o", "b", "a", "l", "_", "s", "u", "m", "m", "a", "r", "y", ".", "m", "d">>

\* The names of the subdirectories of the input folder: "m1", "m2", ...
FolderIds == 1..MaxFolders
FolderName(i) == <<"m", DigitChars[i + 1]>>
FolderNames == {FolderName(i) : i \in FolderIds}

RECURSIVE ReplaceToken(_, _, _)
\* str.format / str.replace restricted to one placeholder token
ReplaceToken(template, token, value) ==
    IF template = <<>> THEN <<>>
    ELSE (IF Head(template) = token THEN value ELSE <<Head(template)>>)
         \o ReplaceToken(Tail(template), token, value)

\* MeetingProcessor._format_filename: the template with {folder_name} filled in
\* (the default templates hold neither {timestamp} nor {date})
format_filename(template, folder_name) ==
    ReplaceToken(template, FolderNamePlaceholder, folder_name)

RECURSIVE GlobMatch(_, _)
\* Path.glob on one directory level: "*" matches any run of characters
GlobMatch(pattern, name) ==
    IF pattern = <<>> THEN name = <<>>
    ELSE IF Head(pattern) = Star
         THEN GlobMatch(Tail(pattern), name)
              \/ (name # <<>> /\ GlobMatch(pattern, Tail(name)))
         ELSE name # <<>> /\ Head(name) = Head(pattern)
              /\ GlobMatch(Tail(pattern), Tail(name))

\* the glob pattern of _collect_summaries_from_folder
summary_glob_pattern ==
    ReplaceToken(individual_summary_filename, FolderNamePlaceholder, <<Star>>)

StartsWith(s, prefix) ==
    Len(s) >= Len(prefix) /\ SubSeq(s, 1, Len(prefix)) = prefix
EndsWith(s, suffix) ==
    Len(s) >= Len(suffix) /\ SubSeq(s, Len(s) - Len(suffix) + 1, Len(s)) = suffix

PlaceholderPositions(template) ==
    {i \in 1..Len(template) : template[i] = FolderNamePlaceholder}

\* Path.stem: the name without its last suffix
Stem(name) ==
    LET dots == {i \in 2..Len(name) : name[i] = "."}
    IN IF dots = {} THEN name
       ELSE SubSeq(name, 1, (CHOOSE i \in dots : \A j \in dots : j <= i) - 1)

\* MeetingProcessor._extract_folder_name_from_file
extract_folder_name_from_file(filename) ==
    LET template == individual_summary_filename
        pos == PlaceholderPositions(template)
    IN IF Cardinality(pos) = 1
       THEN LET p == CHOOSE i \in pos : TRUE
                prefix == SubSeq(template, 1, p - 1)
                suffix == SubSeq(template, p + 1, Len(template))
                f1 == IF StartsWith(filename, prefix)
                      THEN SubSeq(filename, Len(prefix) + 1, Len(filename))
                      ELSE filename
                f2 == IF EndsWith(f1, suffix) /\ suffix # <<>>
                      THEN SubSeq(f1, 1, Len(f1) - Len(suffix))
                      ELSE f1
            IN f2
       ELSE Stem(filename)

\* summaries_path / _format_filename(individual_summary_filename, folder_name=...),
\* tabulated over the folder names of the model
SummaryPathTable ==
    [f \in FolderNames |-> format_filename(individual_summary_filename, f)]
summary_path(folder_name) == SummaryPathTable[folder_name]
global_summary_path == format_filename(global_summary_filename, <<>>)

\* config.py: pdf.filename (default); {date} is one token
DatePlaceholder == "{date}"
pdf_filename_template ==
    <<"c", "o", "m", "p", "l", "e", "t", "e", "_", "s", "u", "m", "m", "a", "r", "y", "_", "r", "e", "p", "o", "r", "t", "_",
      DatePlaceholder, ".", "p", "d", "f">>
\* datetime.now().strftime('%Y-%m-%d'): the runs of one behaviour share a day
today == <<"2", "0", "2", "5", "-", "0", "8", "-", "2", "1">>

\* ReportGenerator._format_filename
pdf_filename == ReplaceToken(pdf_filename_template, DatePlaceholder, today)
\* pdf_filename.replace('.pdf', '_consolidated.md')
markdown_filename ==
    SubSeq(pdf_filename, 1, Len(pdf_filename) - 4)
    \o <<"_", "c", "o", "n", "s", "o", "l", "i", "d", "a", "t", "e", "d", ".", "m", "d">>

\* every file name the output folder can hold in this model
AllNames ==
    {summary_path(f) : f \in FolderNames}
    \cup {global_summary_path, pdf_filename, markdown_filename}

\* ------------------------------------------------------- string ordering
\* the characters of the model in code point order (Python compares str by code point)
Alphabet ==
    <<"*", "-", ".", "/", "0", "1", "2", "3", "4", "5", "6", "7", "8", "9", "_",
      "a", "b", "c", "d", "e", "f", "g", "h", "i", "j", "k", "l", "m", "n", "o",
      "p", "q", "r", "s", "t", "u", "v", "w", "x", "y", "z">>
CharCode(c) == CHOOSE i \in 1..Len(Alphabet) : Alphabet[i] = c

RECURSIVE StrLeq(_, _)
\* a <= b for Python strings
StrLeq(a, b) ==
    IF a = <<>> THEN TRUE
    ELSE IF b = <<>> THEN FALSE
    ELSE IF Head(a) = Head(b) THEN StrLeq(Tail(a), Tail(b))
    ELSE CharCode(Head(a)) < CharCode(Head(b))

\* Python's None, where a dict is expected and where a str is expected
None == [isNone |-> TRUE]
NoneStr == <<"None">>

\* utils.parse_folder_name: the date is what precedes the first underscore
parse_folder_name(folder_name) ==
    LET us == {i \in 1..Len(folder_name) : folder_name[i] = "_"}
    IN IF us # {}
       THEN LET p == CHOOSE i \in us : \A j \in us : i <= j
            IN [date |-> SubSeq(folder_name, 1, p - 1),
                topic |-> SubSeq(folder_name, p + 1, Len(folder_name))]
       ELSE [date |-> NoneStr, topic |-> folder_name]

\* the sort key of _collect_summaries_from_folder:
\* x.get("meeting_date") or x["folder_name"]
SummarySortKey(x) ==
    IF x.meeting_date # NoneStr /\ x.meeting_date # <<>> THEN x.meeting_date
    ELSE x.folder_name

\* the names of AllNames that the glob of _collect_summaries_from_folder matches
GlobbedNames == {n \in AllNames : GlobMatch(summary_glob_pattern, n)}

\* the record _collect_summaries_from_folder builds from one summary file
SummaryRecord(n) ==
    LET folder_name == extract_folder_name_from_file(n)
        meeting_info == parse_folder_name(folder_name)
    IN [folder_name |-> folder_name,
        meeting_date |-> meeting_info.date,
        meeting_topic |-> meeting_info.topic,
        summary_path |-> n]
SummaryRecordTable == [n \in GlobbedNames |-> SummaryRecord(n)]

\* SummarySortKey(x) <= SummarySortKey(y), tabulated
SortKeyLeqTable ==
    [n \in GlobbedNames |->
        {m \in GlobbedNames :
            StrLeq(SummarySortKey(SummaryRecordTable[n]),
                   SummarySortKey(SummaryRecordTable[m]))}]

RECURSIVE SortSummaries(_)
\* list.sort(key=...) over the collected files, yielding their records
SortSummaries(files) ==
    IF files = {} THEN <<>>
    ELSE LET m == CHOOSE x \in files : \A y \in files : y \in SortKeyLeqTable[x]
         IN <<SummaryRecordTable[m]>> \o SortSummaries(files \ {m})

\* ---------------------------------------------------------------- pipeline
VARIABLES
    disk,               \* the output folder: file name -> content (0: no such file)
    globalIncluded,     \* the folder names aggregated in the global summary file on disk
    inputFolders,       \* the input subdirectories that hold a transcript, as listed
    phase,              \* position of process_meetings
    run,                \* number of runs started
    force_overwrite,    \* the flag of the current run
    meeting_folders,    \* the list _find_meeting_folders returned in this run
    idx,                \* position of the loop over meeting_folders
    individual_results, \* the dict _process_individual_summaries builds
    global_result,      \* what _create_global_analysis returned
    pdf_result,         \* what _create_final_report returned
    result,             \* what process_meetings returned
    lastOutcome,        \* history: what happened to the folder processed last
    entered,            \* history: the phases entered in this run
    global_calls,       \* history: remote calls of the global phase in this run
    snap,               \* history: the disk at the end of the previous individual phase
    snapOk,             \* history: snap stems from a run without force, disk untouched since
    deletedSince,       \* history: folders whose summary was deleted after the individual phase
    deletes,            \* number of deletions so far
    lastOp              \* history: the operation that ran last

pipelineVars ==
    <<disk, globalIncluded, inputFolders, phase, run, force_overwrite, meeting_folders,
      idx, individual_results, global_result, pdf_result, result, lastOutcome, entered,
      global_calls, snap, snapOk, deletedSince, deletes, lastOp>>

Exists(d, name) == d[name] # 0

\* content written in run r: the header holds the time of writing, so no two runs
\* write the same bytes (1 is the content of a file that was there before)
Stamp(r) == r + 1

\* the orders in which input_path.iterdir() can list the subdirectories 1..k
Listings(k) ==
    {l \in [1..k -> 1..k] : \A i, j \in 1..k : l[i] = l[j] => i = j}

\* MeetingProcessor._find_meeting_folders: the subdirectories with a transcript, in
\* the order of the directory listing
find_meeting_folders(listing) == [i \in 1..Len(listing) |-> FolderName(listing[i])]

\* config.py: processing.input_folder (default)
input_folder == <<"w", "a", "l", "k", "t", "h", "r", "o", "u", "g", "h", "s">>
\* str(folder_path)
FolderPath(folder_name) == input_folder \o <<"/">> \o folder_name

\* what can happen while one meeting is processed
Outcomes ==
    {"success", "parse_error", "keyframe_error", "remote_error",
     "write_error", "write_error_partial", "raised"}

ErrorResult(folder_name) == [folder |-> folder_name, status |-> "error"]

\* a mutation of skip_existing: the existence check is missing
skip_existing_never(d, path, force) == FALSE

\* the check of _process_single_meeting: summary_path.exists() and not force_overwrite
skip_existing(d, path, force) == Exists(d, path) /\ ~force

\* a mutation of process_single_meeting: the summary file is opened for writing
\* before the transcript is parsed, so a failure leaves it empty
process_single_meeting_truncating(folder_name, d, force, stamp, o) ==
    LET path == summary_path(folder_name)
    IN IF o = "raised"
       THEN [raised |-> TRUE, result |-> None, disk |-> d]
       ELSE IF skip_existing(d, path, force)
       THEN [raised |-> FALSE,
             result |-> [folder |-> folder_name, status |-> "skipped",
                         summary_path |-> path],
             disk |-> d]
       ELSE IF o = "success"
       THEN [raised |-> FALSE,
             result |-> [folder |-> folder_name, status |-> "success",
                         summary_path |-> path],
             disk |-> [d EXCEPT ![path] = stamp]]
       ELSE [raised |-> FALSE, result |-> ErrorResult(folder_name),
             disk |-> [d EXCEPT ![path] = stamp]]

\* MeetingProcessor._process_single_meeting under outcome o:
\* raised (the exception leaves the function), result, and the disk afterwards
process_single_meeting(folder_name, d, force, stamp, o) ==
    LET path == summary_path(folder_name)
    IN IF o = "raised"
       THEN [raised |-> TRUE, result |-> None, disk |-> d]
       ELSE IF skip_existing(d, path, force)
       THEN [raised |-> FALSE,
             result |-> [folder |-> folder_name, status |-> "skipped",
                         summary_path |-> path],
             disk |-> d]
       ELSE IF o = "success"
       THEN [raised |-> FALSE,
             result |-> [folder |-> folder_name, status |-> "success",
                         summary_path |-> path],
             disk |-> [d EXCEPT ![path] = stamp]]
       ELSE IF o = "write_error_partial"
       THEN [raised |-> FALSE, result |-> ErrorResult(folder_name),
             disk |-> [d EXCEPT ![path] = stamp]]
       ELSE [raised |-> FALSE, result |-> ErrorResult(folder_name), disk |-> d]

\* the dict returned when no meeting folder is found
EmptyResults == [processed |-> 0, errors |-> 0, skipped |-> 0, results |-> <<>>]
\* the dict the loop starts from
InitialResults(n) ==
    [processed |-> 0, errors |-> 0, skipped |-> 0, results |-> <<>>, total_folders |-> n]

\* a mutation of tally: the loop has no handler of its own, and a folder whose
\* processing raised leaves no result
tally_unrecorded(results, folder_name, r) ==
    IF r.raised THEN results
    ELSE IF r.result.status = "success"
    THEN [results EXCEPT !.processed = @ + 1, !.results = Append(@, r.result)]
    ELSE IF r.result.status = "skipped"
    THEN [results EXCEPT !.skipped = @ + 1, !.results = Append(@, r.result)]
    ELSE [results EXCEPT !.errors = @ + 1, !.results = Append(@, r.result)]

\* the body of the loop of _process_individual_summaries: the tally after one folder
tally(results, folder_name, r) ==
    IF r.raised
    THEN [results EXCEPT !.errors = @ + 1,
                         !.results = Append(@, ErrorResult(FolderPath(folder_name)))]
    ELSE IF r.result.status = "success"
    THEN [results EXCEPT !.processed = @ + 1, !.results = Append(@, r.result)]
    ELSE IF r.result.status = "skipped"
    THEN [results EXCEPT !.skipped = @ + 1, !.results = Append(@, r.result)]
    ELSE [results EXCEPT !.errors = @ + 1, !.results = Append(@, r.result)]

\* what the folder's processing came to (history)
Observed(r, o) ==
    IF r.raised THEN "raised"
    ELSE IF r.result.status = "skipped" THEN "skipped"
    ELSE o

\* a mutation of GlobbedFiles: the files are taken from memory, not from the disk
GlobbedFilesRemembered(d) == GlobbedNames

\* the files the glob of _collect_summaries_from_folder finds
GlobbedFiles(d) == {n \in GlobbedNames : Exists(d, n)}

\* MeetingProcessor._collect_summaries_from_folder: one record per readable file
\* of the output folder that matches the glob pattern, sorted by date or folder name
collect_summaries_from_folder(d, unreadable) ==
    SortSummaries(GlobbedFiles(d) \ unreadable)

FolderNamesOf(summaries) == {summaries[i].folder_name : i \in 1..Len(summaries)}

GlobalOutcomes == {"success", "remote_error", "write_error", "write_error_partial"}

\* a mutation of global_skip: the existence check is missing
global_skip_never(d, force) == FALSE

\* the check of _create_global_analysis: global_summary_path.exists() and not
\* force_overwrite
global_skip(d, force) == Exists(d, global_summary_path) /\ ~force

\* MeetingProcessor._create_global_analysis under outcome o: the returned dict,
\* the disk and the content of the global summary afterwards, and the remote calls made
create_global_analysis(d, included, force, stamp, o, unreadable) ==
    LET path == global_summary_path
        summaries == collect_summaries_from_folder(d, unreadable)
    IN IF global_skip(d, force)
       THEN [result |-> [status |-> "skipped"], disk |-> d, included |-> included,
             calls |-> 0]
       ELSE IF summaries = <<>>
       THEN [result |-> [status |-> "no_summaries"], disk |-> d, included |-> included,
             calls |-> 0]
       ELSE IF o = "success"
       THEN [result |-> [status |-> "success", summaries_processed |-> Len(summaries)],
             disk |-> [d EXCEPT ![path] = stamp],
             included |-> FolderNamesOf(summaries), calls |-> 1]
       ELSE IF o = "write_error_partial"
       THEN [result |-> [status |-> "error"], disk |-> [d EXCEPT ![path] = stamp],
             included |-> FolderNamesOf(summaries), calls |-> 1]
       ELSE IF o = "write_error"
       THEN [result |-> [status |-> "error"], disk |-> d, included |-> included,
             calls |-> 1]
       ELSE [result |-> [status |-> "error"], disk |-> d, included |-> included,
             calls |-> 1]

ReportOutcomes == {"success", "disabled", "markdown_only", "convert_failed", "error"}

\* ReportGenerator.generate_comprehensive_pdf under outcome o
generate_comprehensive_pdf(individual_summaries, d, force, stamp, o) ==
    IF o = "disabled"
    THEN [result |-> [status |-> "disabled"], disk |-> d]
    ELSE IF Exists(d, pdf_filename) /\ ~force
    THEN [result |-> [status |-> "skipped"], disk |-> d]
    ELSE IF o = "error"
    THEN [result |-> [status |-> "error"], disk |-> d]
    ELSE IF o = "convert_failed"
    THEN [result |-> [status |-> "error"],
          disk |-> [d EXCEPT ![markdown_filename] = stamp]]
    ELSE IF o = "markdown_only"
    THEN [result |-> [status |-> "markdown_only",
                      summaries_included |-> Len(individual_summaries)],
          disk |-> [d EXCEPT ![markdown_filename] = stamp]]
    ELSE [result |-> [status |-> "success",
                      summaries_included |-> Len(individual_summaries)],
          disk |-> [d EXCEPT ![markdown_filename] = stamp, ![pdf_filename] = stamp]]

IsAvailable(r) == r.status \in {"success", "skipped"}

\* MeetingProcessor._create_final_report under outcome o
create_final_report(results, d, force, stamp, o) ==
    LET available_summaries == SelectSeq(results, IsAvailable)
    IN IF available_summaries = <<>>
       THEN [result |-> [status |-> "no_summaries"], disk |-> d]
       ELSE generate_comprehensive_pdf(available_summaries, d, force, stamp, o)


\* ------------------------------------------------- keyframe selection state
VARIABLES
    segments,           \* the transcript segments: adjusted timestamp and relevance score
    max_frames,         \* KeyframeExtractor.max_frames
    candidates,         \* what _analyze_transcript_for_keyframes returned
    selected,           \* the local list of _select_best_candidates
    ci,                 \* position of its loop over candidates
    selection,          \* what _select_best_candidates returned
    sel_pc              \* position of the analysis and selection

selectVars == <<segments, max_frames, candidates, selected, ci, selection, sel_pc>>

\* --------------------------------------------------- frame extraction state
VARIABLES
    fr_candidates,      \* the candidates handed to _extract_frames_from_video
    fps,                \* cv2.CAP_PROP_FPS of the video
    total_frames,       \* cv2.CAP_PROP_FRAME_COUNT of the video
    fi,                 \* position of the loop over the candidates (enumerate index + 1)
    extracted_frames,   \* the list the function builds and returns
    written,            \* the image files saved in output_dir
    cap,                \* the video handle: "none", "open" or "released"
    fr_pc               \* position of _extract_frames_from_video

framesVars ==
    <<fr_candidates, fps, total_frames, fi, extracted_frames, written, cap, fr_pc>>

\* ------------------------------------------------------- relevance score state
VARIABLES
    sc_text,            \* the text of the segment scored
    sc_last,            \* the segment is the last of the transcript
    sc_cat,             \* position of the loop over relevance_keywords
    score,              \* the local score, in hundredths
    max_delay,          \* the local max_delay, in tenths of a second
    sc_result,          \* what _calculate_relevance_score_and_delay returned
    sc_pc               \* position of _calculate_relevance_score_and_delay

scoreVars == <<sc_text, sc_last, sc_cat, score, max_delay, sc_result, sc_pc>>

\* ------------------------------------------------------- single meeting state
VARIABLES
    m_files,            \* the names of the files in the meeting folder
    enable_keyframes,   \* MeetingProcessor.enable_keyframes
    keyframes,          \* the local list keyframes of _process_single_meeting
    m_result,           \* what _process_single_meeting returned
    m_fault,            \* history: the step whose exception the handler caught
    m_pc                \* position in the try body of _process_single_meeting

meetingVars == <<m_files, enable_keyframes, keyframes, m_result, m_fault, m_pc>>

\* ------------------------------------------------------- context window state
VARIABLES
    cx_segments,        \* the transcript segments: start, end (seconds), speaker, text
    target_segment_index, \* the index of the target segment (0-based)
    caption_context_window, \* KeyframeExtractor.caption_context_window (seconds)
    context_segments,   \* the local list context_segments
    cx_result,          \* what _extract_context_window returned
    cx_pc               \* position of _extract_context_window

contextVars ==
    <<cx_segments, target_segment_index, caption_context_window, context_segments,
      cx_result, cx_pc>>

\* ------------------------------------------------------------ remote call state
VARIABLES
    attempt,            \* the loop variable of _invoke_model
    rt_error,           \* the exception of the current attempt ("none": a response)
    rt_history,         \* history: the outcome of every attempt made
    rt_sleeps,          \* history: the delays slept, in seconds
    rt_pc               \* position of the retry loop

retryVars == <<attempt, rt_error, rt_history, rt_sleeps, rt_pc>>

\* ------------------------------------------------------------------ main state
VARIABLES
    mn_folders,         \* the names of the meeting folders, in listing order
    mn_input_exists,    \* the input folder exists
    mn_force,           \* args.force
    mn_disk,            \* the summary file of each folder (0: none, 1: from an earlier
                        \* run, 2: written by this run, 3: partly written)
    mn_i,               \* position of the loop over the meeting folders
    mn_individual,      \* the dict _process_individual_summaries builds
    mn_results,         \* the status of the dict process_meetings returned ("none": not yet)
    sys_bound,          \* the local name sys of main() is bound (import sys has run)
    mn_exception,       \* the exception that reached the handlers of main ("none")
    exit_code,          \* the exit status of the process (-1: still running)
    mn_entered,         \* history: the phases entered
    mn_interrupted,     \* history: the meeting during which a keyboard interrupt was raised
    mn_snap,            \* history: the summary files when that meeting was started
    mn_interrupts,      \* history: keyboard interrupts raised anywhere in the run
    mn_pc               \* position of main()

mainVars ==
    <<mn_folders, mn_input_exists, mn_force, mn_disk, mn_i, mn_individual, mn_results,
      sys_bound, mn_exception, exit_code, mn_entered, mn_interrupted, mn_snap,
      mn_interrupts, mn_pc>>

\* ---------------------------------------------------------- report phase state
VARIABLES
    rp_class,           \* the class whose report phase runs
    rp_results,         \* individual_results: one dict per meeting
    rp_available,       \* the local list of summaries for the report
    rp_called,          \* history: generate_comprehensive_pdf was called
    rp_handed,          \* history: the list it was called with
    rp_result,          \* the status of the dict the report phase returned
    rp_pc               \* position of the report phase

reportVars ==
    <<rp_class, rp_results, rp_available, rp_called, rp_handed, rp_result, rp_pc>>

\* ------------------------------------------------------- folder listing state
VARIABLES
    input_file_patterns, \* config: processing.input_file_patterns
    fd_listing,         \* what input_path.iterdir() yields, in its order
    fd_i,               \* position of the loop over the listing
    fd_found,           \* the list meeting_folders of _find_meeting_folders
    fd_j,               \* position of the loop over the meeting folders
    fd_results,         \* the dict _process_individual_summaries builds
    fd_status,          \* the status process_meetings returns ("none": not yet)
    fd_pc               \* position of the run

findVars ==
    <<input_file_patterns, fd_listing, fd_i, fd_found, fd_j, fd_results, fd_status,
      fd_pc>>

\* --------------------------------------------------- individual phase state
VARIABLES
    iv_folders,         \* per meeting folder: segments its transcript parses to, and
                        \* whether its summary file exists when the run starts
    iv_force,           \* force_overwrite
    iv_i,               \* position of the loop over the meeting folders
    iv_metadata,        \* the keys of the metadata dict of the meeting in progress
    iv_calls,           \* history: remote calls made for each folder
    iv_wrote,           \* history: the summary file of the folder was written
    iv_results,         \* the dict _process_individual_summaries builds
    iv_pc               \* position inside _process_single_meeting

individualVars ==
    <<iv_folders, iv_force, iv_i, iv_metadata, iv_calls, iv_wrote, iv_results, iv_pc>>

\* ------------------------------------------------- filename template state
VARIABLES
    tp_template,        \* config: processing.individual_summary_filename
    tp_folders,         \* the meeting folders of the run, in processing order
    tp_disk,            \* the names of the files in the output folder
    tp_i,               \* position of the loop over the meeting folders
    tp_written,         \* history: folder name -> the file name written for it
    tp_unreadable,      \* the files safe_read_file failed on in the global phase
    tp_collected,       \* what _collect_summaries_from_folder returned
    tp_pc               \* position of the run

templateVars ==
    <<tp_template, tp_folders, tp_disk, tp_i, tp_written, tp_unreadable, tp_collected,
      tp_pc>>

vars ==
    <<pipelineVars, selectVars, framesVars, scoreVars, meetingVars, contextVars,
      retryVars, mainVars, reportVars, findVars, individualVars, templateVars>>

\* what the steps of one part leave alone: the variables of the other parts
nonPipelineVars ==
    <<selectVars, framesVars, scoreVars, meetingVars, contextVars, retryVars, mainVars,
      reportVars, findVars, individualVars, templateVars>>
nonSelectVars ==
    <<pipelineVars, framesVars, scoreVars, meetingVars, contextVars, retryVars,
      mainVars, reportVars, findVars, individualVars, templateVars>>
nonFramesVars ==
    <<pipelineVars, selectVars, scoreVars, meetingVars, contextVars, retryVars,
      mainVars, reportVars, findVars, individualVars, templateVars>>
nonScoreVars ==
    <<pipelineVars, selectVars, framesVars, meetingVars, contextVars, retryVars,
      mainVars, reportVars, findVars, individualVars, templateVars>>
nonMeetingVars ==
    <<pipelineVars, selectVars, framesVars, scoreVars, contextVars, retryVars,
      mainVars, reportVars, findVars, individualVars, templateVars>>
nonContextVars ==
    <<pipelineVars, selectVars, framesVars, scoreVars, meetingVars, retryVars,
      mainVars, reportVars, findVars, individualVars, templateVars>>
nonRetryVars ==
    <<pipelineVars, selectVars, framesVars, scoreVars, meetingVars, contextVars,
      mainVars, reportVars, findVars, individualVars, templateVars>>
nonMainVars ==
    <<pipelineVars, selectVars, framesVars, scoreVars, meetingVars, contextVars,
      retryVars, reportVars, findVars, individualVars, templateVars>>
nonReportVars ==
    <<pipelineVars, selectVars, framesVars, scoreVars, meetingVars, contextVars,
      retryVars, mainVars, findVars, individualVars, templateVars>>
nonFindVars ==
    <<pipelineVars, selectVars, framesVars, scoreVars, meetingVars, contextVars,
      retryVars, mainVars, reportVars, individualVars, templateVars>>
nonIndividualVars ==
    <<pipelineVars, selectVars, framesVars, scoreVars, meetingVars, contextVars,
      retryVars, mainVars, reportVars, findVars, templateVars>>
nonTemplateVars ==
    <<pipelineVars, selectVars, framesVars, scoreVars, meetingVars, contextVars,
      retryVars, mainVars, reportVars, findVars, individualVars>>

\* ------------------------------------------------------------------ actions
IndividualNames == {summary_path(f) : f \in FolderNames}

PipelineInit ==
    /\ disk \in [AllNames -> {0, 1}]
    /\ ~Exists(disk, pdf_filename) /\ ~Exists(disk, markdown_filename)
    /\ globalIncluded =
           IF Exists(disk, global_summary_path)
           THEN {f \in FolderNames : Exists(disk, summary_path(f))}
           ELSE {}
    /\ inputFolders \in UNION {Listings(k) : k \in 0..MaxFolders}
    /\ phase = "idle"
    /\ run = 0
    /\ force_overwrite = FALSE
    /\ meeting_folders = <<>>
    /\ idx = 1
    /\ individual_results = None
    /\ global_result = None
    /\ pdf_result = None
    /\ result = None
    /\ lastOutcome = "none"
    /\ entered = {}
    /\ global_calls = 0
    /\ snap = disk
    /\ snapOk = FALSE
    /\ deletedSince = {}
    /\ deletes = 0
    /\ lastOp = "none"

\* process_meetings up to the loop of _process_individual_summaries: the output
\* directory is ensured, the meeting folders are enumerated, the tally is set up
StartRun ==
    /\ phase \in {"idle", "done"}
    /\ run < MaxRuns
    /\ run' = run + 1
    /\ \E f \in BOOLEAN : force_overwrite' = f
    /\ meeting_folders' = find_meeting_folders(inputFolders)
    /\ idx' = 1
    /\ IF meeting_folders' = <<>>
       THEN individual_results' = EmptyResults /\ phase' = "guard"
       ELSE individual_results' = InitialResults(Len(meeting_folders'))
            /\ phase' = "individual"
    /\ global_result' = None
    /\ pdf_result' = None
    /\ result' = None
    /\ lastOutcome' = "none"
    /\ entered' = {"init", "individual"}
    /\ global_calls' = 0
    /\ deletedSince' = {}
    /\ lastOp' = "run"
    /\ UNCHANGED <<disk, globalIncluded, inputFolders, snap, snapOk, deletes>>
    /\ UNCHANGED nonPipelineVars

\* a mutation of last_folder: the loop is left after its first iteration
last_folder_first(i, folders) == TRUE

\* the for loop of _process_individual_summaries ends with the last folder of the list
last_folder(i, folders) == i = Len(folders)

\* one iteration of the loop of _process_individual_summaries
ProcessFolder ==
    /\ phase = "individual"
    /\ idx <= Len(meeting_folders)
    /\ \E o \in Outcomes :
         LET folder_name == meeting_folders[idx]
             r == process_single_meeting(folder_name, disk, force_overwrite, Stamp(run), o)
         IN /\ disk' = r.disk
            /\ individual_results' = tally(individual_results, folder_name, r)
            /\ lastOutcome' = Observed(r, o)
    /\ idx' = idx + 1
    /\ phase' = IF last_folder(idx, meeting_folders) THEN "guard" ELSE "individual"
    /\ UNCHANGED <<globalIncluded, inputFolders, run, force_overwrite, meeting_folders,
                   global_result, pdf_result, result, entered, global_calls, snap,
                   snapOk, deletedSince, deletes, lastOp>>
    /\ UNCHANGED nonPipelineVars

\* a mutation of NoFiles: skipped folders are not looked at
NoFilesProcessedOnly(results) == results.processed = 0

\* the guard of process_meetings after the individual phase
NoFiles(results) == results.processed = 0 /\ results.skipped = 0

TransitionGuard ==
    /\ phase = "guard"
    /\ IF NoFiles(individual_results)
       THEN /\ result' = [status |-> "no_files", global_result |-> None]
            /\ phase' = "done"
       ELSE /\ result' = result
            /\ phase' = "global"
    /\ snap' = disk
    /\ snapOk' = ~force_overwrite
    /\ lastOutcome' = "none"
    /\ UNCHANGED <<disk, globalIncluded, inputFolders, run, force_overwrite,
                   meeting_folders, idx, individual_results, global_result, pdf_result,
                   entered, global_calls, deletedSince, deletes, lastOp>>
    /\ UNCHANGED nonPipelineVars

\* the files that exist but cannot be read: none, or one of those globbed
UnreadableChoices(d) == {{}} \cup {{n} : n \in GlobbedFiles(d)}

\* step 2 of process_meetings
GlobalPhase ==
    /\ phase = "global"
    /\ \E o \in GlobalOutcomes, unreadable \in UnreadableChoices(disk) :
         LET g == create_global_analysis(disk, globalIncluded, force_overwrite,
                                         Stamp(run), o, unreadable)
         IN /\ global_result' = g.result
            /\ disk' = g.disk
            /\ globalIncluded' = g.included
            /\ global_calls' = global_calls + g.calls
    /\ entered' = entered \cup {"global"}
    /\ phase' = "report"
    /\ UNCHANGED <<inputFolders, run, force_overwrite, meeting_folders, idx,
                   individual_results, pdf_result, result, lastOutcome, snap, snapOk,
                   deletedSince, deletes, lastOp>>
    /\ UNCHANGED nonPipelineVars

\* step 3 of process_meetings and its return
ReportPhase ==
    /\ phase = "report"
    /\ \E o \in ReportOutcomes :
         LET p == create_final_report(individual_results.results, disk, force_overwrite,
                                      Stamp(run), o)
         IN /\ pdf_result' = p.result
            /\ disk' = p.disk
            /\ result' = [status |-> "success", global_result |-> global_result,
                          pdf_result |-> p.result]
    /\ entered' = entered \cup {"report"}
    /\ phase' = "done"
    /\ UNCHANGED <<globalIncluded, inputFolders, run, force_overwrite, meeting_folders,
                   idx, individual_results, global_result, lastOutcome, global_calls, snap,
                   snapOk, deletedSince, deletes, lastOp>>
    /\ UNCHANGED nonPipelineVars

\* the operator deletes one individual summary file between two operations
DeleteSummaryFile ==
    /\ phase = "done"
    /\ deletes < MaxDeletes
    /\ \E f \in FolderNames :
         /\ Exists(disk, summary_path(f))
         /\ disk' = [disk EXCEPT ![summary_path(f)] = 0]
         /\ deletedSince' = deletedSince \cup {f}
    /\ deletes' = deletes + 1
    /\ snapOk' = FALSE
    /\ lastOp' = "delete"
    /\ UNCHANGED <<globalIncluded, inputFolders, phase, run, force_overwrite,
                   meeting_folders, idx, individual_results, global_result, pdf_result,
                   result, lastOutcome, entered, global_calls, snap>>
    /\ UNCHANGED nonPipelineVars

\* _create_global_analysis called again on its own, with either flag
RerunGlobal ==
    /\ phase = "done"
    /\ run >= 1
    /\ run < MaxRuns
    /\ run' = run + 1
    /\ \E f \in BOOLEAN, o \in GlobalOutcomes, unreadable \in UnreadableChoices(disk) :
         LET g == create_global_analysis(disk, globalIncluded, f, Stamp(run'), o,
                                         unreadable)
         IN /\ global_result' = g.result
            /\ disk' = g.disk
            /\ globalIncluded' = g.included
            /\ global_calls' = global_calls + g.calls
            /\ force_overwrite' = f
    /\ snapOk' = FALSE
    /\ lastOp' = "rerun_global"
    /\ UNCHANGED <<inputFolders, phase, meeting_folders, idx, individual_results,
                   pdf_result, result, lastOutcome, entered, snap, deletedSince, deletes>>
    /\ UNCHANGED nonPipelineVars

Next ==
    \/ StartRun
    \/ ProcessFolder
    \/ TransitionGuard
    \/ GlobalPhase
    \/ ReportPhase
    \/ DeleteSummaryFile
    \/ RerunGlobal

\* ------------------------------------------------------ keyframe selection
MaxSegments == 3
MaxFramesSetting == 2

\* adjusted timestamps (seconds) and relevance scores (tenths) a segment can have
TimeChoices == {0, 30, 60, 120}
ScoreChoices == {2, 5, 8}

\* config.py: keyframes.min_relevance_score (0.3, in tenths)
min_relevance_score == 3
\* min_interval of _select_best_candidates (seconds)
min_interval == 60

SegmentChoices == [timestamp_seconds : TimeChoices, relevance_score : ScoreChoices]
SegmentLists == UNION {[1..n -> SegmentChoices] : n \in 0..MaxSegments}

Abs(x) == IF x < 0 THEN 0 - x ELSE x

RECURSIVE Candidates(_, _)
\* the loop of _analyze_transcript_for_keyframes: one candidate per segment whose
\* score reaches min_relevance_score, in transcript order (i: segments done so far)
Candidates(segs, i) ==
    IF i = Len(segs) THEN <<>>
    ELSE LET segment == segs[i + 1]
         IN (IF segment.relevance_score >= min_relevance_score
             THEN <<[timestamp_seconds |-> segment.timestamp_seconds,
                     relevance_score |-> segment.relevance_score,
                     segment_index |-> i]>>
             ELSE <<>>)
            \o Candidates(segs, i + 1)

RECURSIVE InsertByScore(_, _)
\* x put into s, sorted by descending score, behind the elements of equal score
InsertByScore(s, x) ==
    IF s = <<>> THEN <<x>>
    ELSE IF x.relevance_score > Head(s).relevance_score THEN <<x>> \o s
    ELSE <<Head(s)>> \o InsertByScore(Tail(s), x)

RECURSIVE sort_by_score(_)
\* candidates.sort(key=lambda x: x.relevance_score, reverse=True): stable
sort_by_score(s) ==
    IF s = <<>> THEN <<>>
    ELSE InsertByScore(sort_by_score(SubSeq(s, 1, Len(s) - 1)), s[Len(s)])

RECURSIVE InsertByTime(_, _)
\* x put into s, sorted by ascending timestamp, behind the elements of equal timestamp
InsertByTime(s, x) ==
    IF s = <<>> THEN <<x>>
    ELSE IF x.timestamp_seconds < Head(s).timestamp_seconds THEN <<x>> \o s
    ELSE <<Head(s)>> \o InsertByTime(Tail(s), x)

RECURSIVE sort_by_timestamp(_)
\* selected.sort(key=lambda x: x.timestamp_seconds): stable
sort_by_timestamp(s) ==
    IF s = <<>> THEN <<>>
    ELSE InsertByTime(sort_by_timestamp(SubSeq(s, 1, Len(s) - 1)), s[Len(s)])

\* KeyframeExtractor._analyze_transcript_for_keyframes
analyze_transcript_for_keyframes(segs) == sort_by_score(Candidates(segs, 0))

\* a mutation of too_close: the spacing is not checked
too_close_unchecked(candidate, sel) == FALSE

\* the inner loop of _select_best_candidates
too_close(candidate, sel) ==
    \E k \in 1..Len(sel) :
        Abs(candidate.timestamp_seconds - sel[k].timestamp_seconds) < min_interval

SelectOff ==
    /\ segments = <<>>
    /\ max_frames = 0
    /\ candidates = <<>>
    /\ selected = <<>>
    /\ ci = 1
    /\ selection = <<>>
    /\ sel_pc = "off"

SelectInit ==
    /\ segments \in SegmentLists
    /\ max_frames \in 0..MaxFramesSetting
    /\ candidates = <<>>
    /\ selected = <<>>
    /\ ci = 1
    /\ selection = <<>>
    /\ sel_pc = "analyze"

\* extract_keyframes up to the call of _select_best_candidates
Analyze ==
    /\ sel_pc = "analyze"
    /\ candidates' = analyze_transcript_for_keyframes(segments)
    /\ sel_pc' = IF candidates' = <<>> THEN "done" ELSE "select"
    /\ UNCHANGED <<segments, max_frames, selected, ci, selection>>
    /\ UNCHANGED nonSelectVars

\* the head of _select_best_candidates
SelectEnter ==
    /\ sel_pc = "select"
    /\ IF Len(candidates) <= max_frames
       THEN selection' = candidates /\ sel_pc' = "done"
       ELSE selection' = selection /\ sel_pc' = "loop"
    /\ selected' = <<>>
    /\ ci' = 1
    /\ UNCHANGED <<segments, max_frames, candidates>>
    /\ UNCHANGED nonSelectVars

\* one iteration of the loop of _select_best_candidates
SelectStep ==
    /\ sel_pc = "loop"
    /\ ci <= Len(candidates)
    /\ LET candidate == candidates[ci]
       IN IF too_close(candidate, selected)
          THEN /\ selected' = selected
               /\ sel_pc' = IF ci = Len(candidates) THEN "sort" ELSE "loop"
          ELSE /\ selected' = Append(selected, candidate)
               /\ sel_pc' = IF Len(selected') >= max_frames \/ ci = Len(candidates)
                            THEN "sort" ELSE "loop"
    /\ ci' = ci + 1
    /\ UNCHANGED <<segments, max_frames, candidates, selection>>
    /\ UNCHANGED nonSelectVars

\* the tail of _select_best_candidates
SelectReturn ==
    /\ sel_pc = "sort"
    /\ selection' = sort_by_timestamp(selected)
    /\ sel_pc' = "done"
    /\ UNCHANGED <<segments, max_frames, candidates, selected, ci>>
    /\ UNCHANGED nonSelectVars

SelectNext ==
    \/ Analyze
    \/ SelectEnter
    \/ SelectStep
    \/ SelectReturn

\* -------------------------------------------------------- frame extraction
MaxCandidates == 3

\* frames per second and frame counts a video can report
FpsChoices == {0, 1, 2}
TotalFramesChoices == {0, 50, 100}

CandidateLists == UNION {[1..n -> TimeChoices] : n \in 0..MaxCandidates}

RECURSIVE IntToStr(_)
\* str(n) for n >= 0
IntToStr(n) ==
    IF n < 10 THEN <<DigitChars[n + 1]>>
    ELSE IntToStr(n \div 10) \o <<DigitChars[(n % 10) + 1]>>

\* base_filename of the call in _process_single_meeting: f"{folder_name}_summary"
base_filename == FolderName(1) \o <<"_", "s", "u", "m", "m", "a", "r", "y">>

\* f"{base_filename}_{i+1}.png", i the enumerate index of the candidate
output_filename(i) ==
    base_filename \o <<"_">> \o IntToStr(i + 1) \o <<".", "p", "n", "g">>

DigitValue(c) == (CHOOSE k \in 1..10 : DigitChars[k] = c) - 1

RECURSIVE StrToInt(_)
StrToInt(str) ==
    IF str = <<>> THEN 0
    ELSE StrToInt(SubSeq(str, 1, Len(str) - 1)) * 10 + DigitValue(str[Len(str)])

\* the ordinal an image file name carries: what stands between the base name's
\* underscore and the suffix
OrdinalOf(name) ==
    StrToInt(SubSeq(name, Len(base_filename) + 2, Len(name) - 4))

FramesOff ==
    /\ fr_candidates = <<>>
    /\ fps = 0
    /\ total_frames = 0
    /\ fi = 1
    /\ extracted_frames = <<>>
    /\ written = {}
    /\ cap = "none"
    /\ fr_pc = "off"

FramesInit ==
    /\ fr_candidates \in CandidateLists
    /\ fps \in FpsChoices
    /\ total_frames \in TotalFramesChoices
    /\ fi = 1
    /\ extracted_frames = <<>>
    /\ written = {}
    /\ cap = "none"
    /\ fr_pc = "open"

\* cv2.VideoCapture, isOpened, and the video properties:
\* duration = total_frames / fps raises ZeroDivisionError when fps is 0
OpenVideo ==
    /\ fr_pc = "open"
    /\ \E opened \in BOOLEAN :
         IF ~opened
         THEN cap' = "none" /\ fr_pc' = "returned"
         ELSE cap' = "open" /\ fr_pc' = IF fps = 0 THEN "returned" ELSE "loop"
    /\ UNCHANGED <<fr_candidates, fps, total_frames, fi, extracted_frames, written>>
    /\ UNCHANGED nonFramesVars

\* candidate.timestamp_seconds >= duration, with duration = total_frames / fps
beyond_duration(timestamp_seconds) == timestamp_seconds * fps >= total_frames
\* int(candidate.timestamp_seconds * fps)
frame_number(timestamp_seconds) == timestamp_seconds * fps

SaveOutcomes == {"ok", "fail", "raise"}

\* one iteration of the loop of _extract_frames_from_video; ret: cap.read decoded
\* a frame; save: cv2.imwrite returned True, returned False, or raised
ExtractFrame ==
    /\ fr_pc = "loop"
    /\ fi <= Len(fr_candidates)
    /\ \E ret \in BOOLEAN, save \in SaveOutcomes :
         LET timestamp_seconds == fr_candidates[fi]
             name == output_filename(fi - 1)
         IN IF beyond_duration(timestamp_seconds)
               \/ frame_number(timestamp_seconds) >= total_frames
               \/ ~ret
            THEN /\ UNCHANGED <<extracted_frames, written, fr_pc>>
            ELSE IF save = "raise"
            THEN /\ fr_pc' = "returned"
                 /\ UNCHANGED <<extracted_frames, written>>
            ELSE IF save = "ok"
            THEN /\ written' = written \cup {name}
                 /\ extracted_frames' =
                        Append(extracted_frames,
                               [timestamp_seconds |-> timestamp_seconds,
                                image_path |-> name])
                 /\ fr_pc' = fr_pc
            ELSE /\ UNCHANGED <<extracted_frames, written, fr_pc>>
    /\ fi' = fi + 1
    /\ UNCHANGED <<fr_candidates, fps, total_frames, cap>>
    /\ UNCHANGED nonFramesVars

\* the loop is over: cap.release() and the return
ReleaseVideo ==
    /\ fr_pc = "loop"
    /\ fi > Len(fr_candidates)
    /\ cap' = "released"
    /\ fr_pc' = "returned"
    /\ UNCHANGED <<fr_candidates, fps, total_frames, fi, extracted_frames, written>>
    /\ UNCHANGED nonFramesVars

FramesNext ==
    \/ OpenVideo
    \/ ExtractFrame
    \/ ReleaseVideo

\* ---------------------------------------------------------- relevance score
MaxPhrases == 3

\* KeyframeExtractor.relevance_keywords, in the order of the dict; delay_seconds in
\* tenths of a second
relevance_keywords ==
    <<[category |-> "screen_sharing",
       keywords |-> <<"share my screen", "can you see", "let me show", "take a look",
                      "here you can see", "on the screen">>,
       delay_seconds |-> 30],
      [category |-> "screen_sharing_immediate",
       keywords |-> <<"sharing my screen", "screen is shared", "you should see">>,
       delay_seconds |-> 0],
      [category |-> "demonstrations",
       keywords |-> <<"demo", "example", "workflow", "process", "step by step",
                      "walk through", "walkthrough">>,
       delay_seconds |-> 20],
      [category |-> "technical",
       keywords |-> <<"code", "configuration", "setup", "implementation",
                      "architecture", "deployment">>,
       delay_seconds |-> 10],
      [category |-> "transitions",
       keywords |-> <<"next", "now", "moving on", "let's go to", "switch to",
                      "another thing">>,
       delay_seconds |-> 20],
      [category |-> "important",
       keywords |-> <<"important", "key", "main", "critical", "essential",
                      "note that", "remember">>,
       delay_seconds |-> 5],
      [category |-> "questions",
       keywords |-> <<"question", "ask", "clarify", "understand", "explain">>,
       delay_seconds |-> 10]>>

\* the phrases of _calculate_relevance_score_and_delay that mark a section start
section_start_phrases == <<"okay", "so", "now", "next", "let's">>

\* the operator "in" of two str
Contains(text, sub) ==
    \E i \in 1..(Len(text) - Len(sub) + 1) : SubSeq(text, i, i + Len(sub) - 1) = sub

UpperCase == "ABCDEFGHIJKLMNOPQRSTUVWXYZ"
LowerCase == "abcdefghijklmnopqrstuvwxyz"
LowerChar(c) ==
    IF \E i \in 1..Len(UpperCase) : SubSeq(UpperCase, i, i) = c
    THEN LET i == CHOOSE j \in 1..Len(UpperCase) : SubSeq(UpperCase, j, j) = c
         IN SubSeq(LowerCase, i, i)
    ELSE c

RECURSIVE Lower(_)
\* str.lower, one half of the text after the other
Lower(text) ==
    IF Len(text) = 0 THEN ""
    ELSE IF Len(text) = 1 THEN LowerChar(text)
    ELSE Lower(SubSeq(text, 1, Len(text) \div 2))
         \o Lower(SubSeq(text, (Len(text) \div 2) + 1, Len(text)))

\* len(text.split()): the number of runs of characters other than blanks
WordCount(text) ==
    Cardinality({i \in 1..Len(text) :
                    /\ SubSeq(text, i, i) # " "
                    /\ (i = 1 \/ SubSeq(text, i - 1, i - 1) = " ")})

RECURSIVE Repeat(_, _)
Repeat(word, n) == IF n = 0 THEN "" ELSE word \o Repeat(word, n - 1)

\* what a segment can say: phrases with and without keywords, and a long one
Phrases ==
    {"I will share my screen", "let me show", "a Demo", "this is important",
     "you know", "hello", "x" \o Repeat(" x", 20)}

RECURSIVE JoinPhrases(_)
JoinPhrases(ps) ==
    IF ps = <<>> THEN ""
    ELSE IF Len(ps) = 1 THEN ps[1]
    ELSE ps[1] \o " " \o JoinPhrases(Tail(ps))

\* the segment texts of the model: up to MaxPhrases phrases, separated by blanks
Texts == {JoinPhrases(ps) : ps \in UNION {[1..n -> Phrases] : n \in 0..MaxPhrases}}

\* text_lower = text.lower(), tabulated over the texts of the model
TextLowerTable == [t \in Texts |-> Lower(t)]
text_lower(text) == TextLowerTable[text]

\* the keywords found in each text of the model (keyword in text_lower), tabulated
KeywordsFoundTable ==
    [t \in Texts |->
        UNION {{relevance_keywords[c].keywords[k] :
                   k \in {j \in 1..Len(relevance_keywords[c].keywords) :
                             Contains(text_lower(t), relevance_keywords[c].keywords[j])}} :
               c \in 1..Len(relevance_keywords)}]
keyword_in_text(keyword, text) == keyword \in KeywordsFoundTable[text]

\* the weight of a category, in hundredths
CategoryWeight(category) ==
    IF Contains(category, "screen_sharing") THEN 40
    ELSE IF category = "demonstrations" THEN 30
    ELSE IF category = "technical" THEN 20
    ELSE IF category = "transitions" THEN 10
    ELSE IF category = "important" THEN 15
    ELSE IF category = "questions" THEN 10
    ELSE 0

Max(a, b) == IF a >= b THEN a ELSE b
Min(a, b) == IF a <= b THEN a ELSE b

\* a mutation of track_delay: the delay of the keyword matched last is kept
track_delay_last(current, delay) == delay

\* max_delay = max(max_delay, delay)
track_delay(current, delay) == Max(current, delay)

RECURSIVE KeywordLoop(_, _, _, _)
\* the loop over the keywords of one category: [score, max_delay] after the
\* keywords from position k on
KeywordLoop(info, k, text, acc) ==
    IF k > Len(info.keywords) THEN acc
    ELSE KeywordLoop(info, k + 1, text,
             IF keyword_in_text(info.keywords[k], text)
             THEN [score |-> acc.score + CategoryWeight(info.category),
                   max_delay |-> track_delay(acc.max_delay, info.delay_seconds)]
             ELSE acc)

\* the bonus for longer segments
LengthBonus(word_count) ==
    IF word_count > 20 THEN 10
    ELSE IF word_count > 50 THEN 20
    ELSE 0

\* the bonus for segments that appear to be section starts
SectionStartBonus(text, is_last) ==
    IF ~is_last
       /\ \E k \in 1..Len(section_start_phrases) :
              Contains(text_lower(text), section_start_phrases[k])
    THEN 10 ELSE 0

\* a mutation of cap_score: the score is returned as it is
cap_score_missing(sc) == sc

\* min(score, 1.0)
cap_score(sc) == Min(sc, 100)

ScoreOff ==
    /\ sc_text = ""
    /\ sc_last = FALSE
    /\ sc_cat = 1
    /\ score = 0
    /\ max_delay = 0
    /\ sc_result = None
    /\ sc_pc = "off"

ScoreInit ==
    /\ sc_text \in Texts
    /\ sc_last \in BOOLEAN
    /\ sc_cat = 1
    /\ score = 0
    /\ max_delay = 0
    /\ sc_result = None
    /\ sc_pc = "keywords"

\* one iteration of the loop over relevance_keywords
ScoreCategory ==
    /\ sc_pc = "keywords"
    /\ LET after == KeywordLoop(relevance_keywords[sc_cat], 1, sc_text,
                                [score |-> score, max_delay |-> max_delay])
       IN score' = after.score /\ max_delay' = after.max_delay
    /\ sc_cat' = sc_cat + 1
    /\ sc_pc' = IF sc_cat = Len(relevance_keywords) THEN "bonus" ELSE "keywords"
    /\ UNCHANGED <<sc_text, sc_last, sc_result>>
    /\ UNCHANGED nonScoreVars

\* the two bonuses
ScoreBonus ==
    /\ sc_pc = "bonus"
    /\ score' = score + LengthBonus(WordCount(sc_text))
                      + SectionStartBonus(sc_text, sc_last)
    /\ sc_pc' = "return"
    /\ UNCHANGED <<sc_text, sc_last, sc_cat, max_delay, sc_result>>
    /\ UNCHANGED nonScoreVars

\* return min(score, 1.0), max_delay
ScoreReturn ==
    /\ sc_pc = "return"
    /\ sc_result' = [score |-> cap_score(score), delay |-> max_delay]
    /\ sc_pc' = "done"
    /\ UNCHANGED <<sc_text, sc_last, sc_cat, score, max_delay>>
    /\ UNCHANGED nonScoreVars

ScoreNext ==
    \/ ScoreCategory
    \/ ScoreBonus
    \/ ScoreReturn

\* ----------------------------------------------------------- single meeting
MaxKeyframes == 2

\* the file names a meeting folder is drawn from
FolderFiles == {"meeting.vtt", "rec.mp4", "rec.mov", "rec.avi", "rec.mkv", "REC.MP4"}

\* the patterns of _find_video_file, in the order they are tried
video_extensions == <<"*.mp4", "*.mov", "*.avi", "*.mkv">>

\* folder_path.glob(pattern) for a pattern "*<suffix>"
GlobSuffix(files, pattern) ==
    LET suffix == SubSeq(pattern, 2, Len(pattern))
    IN {f \in files : /\ Len(f) >= Len(suffix)
                      /\ SubSeq(f, Len(f) - Len(suffix) + 1, Len(f)) = suffix}

\* None, where a file name can stand
NoFile == "<None>"

\* a mutation of find_video_file: a file is returned whatever the folder holds
find_video_file_always(files) == "rec.mp4"

\* MeetingProcessor._find_video_file: a file of the first pattern that matches, or None
find_video_file(files) ==
    LET hits == {k \in 1..Len(video_extensions) : GlobSuffix(files, video_extensions[k]) # {}}
    IN IF hits = {} THEN NoFile
       ELSE LET k == CHOOSE h \in hits : \A g \in hits : h <= g
            IN CHOOSE f \in GlobSuffix(files, video_extensions[k]) : TRUE

\* what the environment does to one call of extract_keyframes
KeyframeEnvs ==
    [video_exists : BOOLEAN, makedirs_ok : BOOLEAN, n_candidates : 0..MaxKeyframes,
     opened : BOOLEAN, fps_valid : BOOLEAN, saved : 0..MaxKeyframes]

\* KeyframeExtractor._extract_frames_from_video: the frames saved; every failure
\* inside is caught and logged
extract_frames_from_video(env) ==
    IF ~env.opened \/ ~env.fps_valid THEN <<>>
    ELSE [i \in 1..Min(env.saved, env.n_candidates) |-> i]

\* KeyframeExtractor.extract_keyframes: raised (the exception leaves the call) and
\* the list returned
extract_keyframes(env) ==
    IF ~env.video_exists THEN [raised |-> FALSE, keyframes |-> <<>>]
    ELSE IF ~env.makedirs_ok THEN [raised |-> TRUE, keyframes |-> <<>>]
    ELSE IF env.n_candidates = 0 THEN [raised |-> FALSE, keyframes |-> <<>>]
    ELSE [raised |-> FALSE, keyframes |-> extract_frames_from_video(env)]

\* the dict of the except branch of _process_single_meeting
MeetingError == [folder |-> "m", status |-> "error"]

MeetingOff ==
    /\ m_files = {}
    /\ enable_keyframes = FALSE
    /\ keyframes = <<>>
    /\ m_result = None
    /\ m_fault = "none"
    /\ m_pc = "off"

\* the call has passed the existence check and enters the try body
MeetingInit ==
    /\ m_files \in {fs \in SUBSET FolderFiles : "meeting.vtt" \in fs}
    /\ enable_keyframes \in BOOLEAN
    /\ keyframes = <<>>
    /\ m_result = None
    /\ m_fault = "none"
    /\ m_pc = "parse"

\* a step of the try body raised: the handler returns an error dict
MeetingFails(step) ==
    /\ m_result' = MeetingError
    /\ m_fault' = step
    /\ m_pc' = "returned"

\* the transcript, its segments and its metadata are parsed
MeetingParse ==
    /\ m_pc = "parse"
    /\ \E ok \in BOOLEAN :
         IF ok
         THEN m_pc' = "keyframes" /\ UNCHANGED <<m_result, m_fault>>
         ELSE MeetingFails("parse")
    /\ UNCHANGED <<m_files, enable_keyframes, keyframes>>
    /\ UNCHANGED nonMeetingVars

\* keyframes = []; if enabled and a video file is found, extract_keyframes
MeetingKeyframes ==
    /\ m_pc = "keyframes"
    /\ LET video_file == find_video_file(m_files)
       IN IF enable_keyframes /\ video_file # NoFile
          THEN \E env \in KeyframeEnvs :
                 LET r == extract_keyframes(env)
                 IN IF r.raised
                    THEN MeetingFails("keyframes") /\ UNCHANGED keyframes
                    ELSE /\ keyframes' = r.keyframes
                         /\ m_pc' = "summary"
                         /\ UNCHANGED <<m_result, m_fault>>
          ELSE /\ keyframes' = <<>>
               /\ m_pc' = "summary"
               /\ UNCHANGED <<m_result, m_fault>>
    /\ UNCHANGED <<m_files, enable_keyframes>>
    /\ UNCHANGED nonMeetingVars

\* ai_client.create_summary
MeetingSummary ==
    /\ m_pc = "summary"
    /\ \E ok \in BOOLEAN :
         IF ok
         THEN m_pc' = "write" /\ UNCHANGED <<m_result, m_fault>>
         ELSE MeetingFails("summary")
    /\ UNCHANGED <<m_files, enable_keyframes, keyframes>>
    /\ UNCHANGED nonMeetingVars

\* file_writer.write_individual_summary, then the success dict
MeetingWrite ==
    /\ m_pc = "write"
    /\ \E ok \in BOOLEAN :
         IF ok
         THEN /\ m_result' = [folder |-> "m", status |-> "success",
                              keyframes_extracted |-> Len(keyframes)]
              /\ m_pc' = "returned"
              /\ UNCHANGED m_fault
         ELSE MeetingFails("write")
    /\ UNCHANGED <<m_files, enable_keyframes, keyframes>>
    /\ UNCHANGED nonMeetingVars

MeetingNext == MeetingParse \/ MeetingKeyframes \/ MeetingSummary \/ MeetingWrite

\* ----------------------------------------------------------- context window
MaxContextSegments == 3

\* the [start, end] intervals (seconds) a segment can have
IntervalChoices == {<<0, 5>>, <<4, 9>>, <<10, 15>>, <<16, 21>>, <<20, 25>>}
\* the context windows a configuration can set (keyframes.caption_context_window)
WindowChoices == {0, 5, 6}
\* the speaker labels _extract_speaker_from_text can find ("": None)
SpeakerChoices == {"", "Ann"}
\* the cleaned text of the segment at a position of the transcript: never empty
\* (TranscriptParser.parse_file drops the captions whose cleaned text is empty)
SegmentText == <<"alpha", "beta", "gamma", "delta">>

ContextSegmentLists ==
    UNION {{[i \in 1..n |-> [start |-> iv[i][1], end |-> iv[i][2],
                             speaker |-> sp[i], text |-> SegmentText[i]]] :
              iv \in [1..n -> IntervalChoices], sp \in [1..n -> SpeakerChoices]} :
           n \in 0..MaxContextSegments}

DigitString == "0123456789"
RECURSIVE ShowInt(_)
\* str(n) for n >= 0
ShowInt(n) ==
    IF n < 10 THEN SubSeq(DigitString, n + 1, n + 1)
    ELSE ShowInt(n \div 10) \o SubSeq(DigitString, (n % 10) + 1, (n % 10) + 1)

\* f"{n:02d}"
TwoDigits(n) == IF n < 10 THEN "0" \o ShowInt(n) ELSE ShowInt(n)

\* KeyframeExtractor._format_timestamp_for_display of a start time
format_timestamp_for_display(t) ==
    LET hours == t \div 3600
        minutes == (t % 3600) \div 60
        seconds == t % 60
    IN IF hours > 0
       THEN ShowInt(hours) \o ":" \o TwoDigits(minutes) \o ":" \o TwoDigits(seconds)
       ELSE ShowInt(minutes) \o ":" \o TwoDigits(seconds)

\* a mutation of in_context_window: the boundaries are exclusive
in_context_window_exclusive(segment, target, window) ==
    /\ segment.end > target.start - window
    /\ segment.start < target.end + window

\* the test of the collecting loop: the segment overlaps the context window
in_context_window(segment, target, window) ==
    /\ segment.end >= target.start - window
    /\ segment.start <= target.end + window

RECURSIVE InsertByStart(_, _)
\* x goes behind every element that does not start later (list.sort is stable)
InsertByStart(sorted, x) ==
    IF sorted = <<>> THEN <<x>>
    ELSE IF x.start < Head(sorted).start THEN <<x>> \o sorted
    ELSE <<Head(sorted)>> \o InsertByStart(Tail(sorted), x)

RECURSIVE sort_by_start(_)
\* context_segments.sort(key=start time)
sort_by_start(list) ==
    IF list = <<>> THEN <<>>
    ELSE InsertByStart(sort_by_start(SubSeq(list, 1, Len(list) - 1)), list[Len(list)])

\* the string of one context segment: "[timestamp] speaker: text", the target in bold
render_segment(segment, target) ==
    "[" \o format_timestamp_for_display(segment.start) \o "]"
    \o (IF segment.speaker # "" THEN " " \o segment.speaker \o ":" ELSE "")
    \o " "
    \o (IF segment = target THEN "**" \o segment.text \o "**" ELSE segment.text)

RECURSIVE join_parts(_, _)
\* " | ".join of the rendered segments whose text is not empty
join_parts(list, target) ==
    IF list = <<>> THEN ""
    ELSE LET rest == SelectSeq(Tail(list), LAMBDA g : g.text # "")
         IN IF Head(list).text = "" THEN join_parts(Tail(list), target)
            ELSE IF rest = <<>> THEN render_segment(Head(list), target)
            ELSE render_segment(Head(list), target) \o " | "
                 \o join_parts(Tail(list), target)

ContextOff ==
    /\ cx_segments = <<>>
    /\ target_segment_index = 0
    /\ caption_context_window = 0
    /\ context_segments = <<>>
    /\ cx_result = ""
    /\ cx_pc = "off"

ContextInit ==
    /\ cx_segments \in ContextSegmentLists
    /\ target_segment_index \in 0..MaxContextSegments
    /\ caption_context_window \in WindowChoices
    /\ context_segments = <<>>
    /\ cx_result = ""
    /\ cx_pc = "start"

\* the guard, the collecting loop and the sort
ContextCollect ==
    /\ cx_pc = "start"
    /\ IF cx_segments = <<>> \/ target_segment_index >= Len(cx_segments)
       THEN /\ cx_pc' = "done"
            /\ UNCHANGED context_segments
       ELSE LET target_segment == cx_segments[target_segment_index + 1]
            IN /\ context_segments' =
                    sort_by_start(SelectSeq(cx_segments,
                        LAMBDA g : in_context_window(g, target_segment,
                                                     caption_context_window)))
               /\ cx_pc' = "render"
    /\ UNCHANGED <<cx_segments, target_segment_index, caption_context_window, cx_result>>
    /\ UNCHANGED nonContextVars

\* the rendering loop and the join
ContextRender ==
    /\ cx_pc = "render"
    /\ cx_result' = join_parts(context_segments, cx_segments[target_segment_index + 1])
    /\ cx_pc' = "done"
    /\ UNCHANGED <<cx_segments, target_segment_index, caption_context_window,
                   context_segments>>
    /\ UNCHANGED nonContextVars

ContextNext == ContextCollect \/ ContextRender

\* -------------------------------------------------------------- remote call
max_retries == 3
base_delay == 60

\* what one call of bedrock_runtime.invoke_model can come to: a response, a
\* ClientError with an error code, or an exception that is no ClientError
AttemptOutcomes == {"none", "ThrottlingException", "ValidationException", "not_client_error"}

\* the values random.uniform(0, 10) is drawn from
JitterChoices == {0, 4, 10}

RECURSIVE Pow2(_)
Pow2(n) == IF n = 0 THEN 1 ELSE 2 * Pow2(n - 1)

\* a mutation of should_retry: every ClientError is retried
should_retry_any(error_code, a) == a < max_retries

\* the test of the except branch: throttled, and retries are left
should_retry(error_code, a) == error_code = "ThrottlingException" /\ a < max_retries

\* base_delay * (2 ** attempt) + random.uniform(0, 10)
backoff_delay(a, jitter) == base_delay * Pow2(a) + jitter

RetryOff ==
    /\ attempt = 0
    /\ rt_error = "none"
    /\ rt_history = <<>>
    /\ rt_sleeps = <<>>
    /\ rt_pc = "off"

RetryInit ==
    /\ attempt = 0
    /\ rt_error = "none"
    /\ rt_history = <<>>
    /\ rt_sleeps = <<>>
    /\ rt_pc = "invoke"

\* the try body of one pass of the loop: a response breaks the loop, a ClientError
\* enters the except branch, any other exception leaves _invoke_model
RetryInvoke ==
    /\ rt_pc = "invoke"
    /\ attempt <= max_retries
    /\ \E o \in AttemptOutcomes :
         /\ rt_error' = o
         /\ rt_history' = Append(rt_history, o)
         /\ rt_pc' = IF o = "none" THEN "returned"
                     ELSE IF o = "not_client_error" THEN "raised"
                     ELSE "except"
    /\ UNCHANGED <<attempt, rt_sleeps>>
    /\ UNCHANGED nonRetryVars

\* the except branch: sleep and continue, or re-raise
RetryExcept ==
    /\ rt_pc = "except"
    /\ IF should_retry(rt_error, attempt)
       THEN \E jitter \in JitterChoices :
              /\ rt_sleeps' = Append(rt_sleeps, backoff_delay(attempt, jitter))
              /\ attempt' = attempt + 1
              /\ rt_pc' = "invoke"
       ELSE /\ rt_pc' = "raised"
            /\ UNCHANGED <<attempt, rt_sleeps>>
    /\ UNCHANGED <<rt_error, rt_history>>
    /\ UNCHANGED nonRetryVars

RetryNext == RetryInvoke \/ RetryExcept

\* --------------------------------------------------------------------- main
MaxMainFolders == 2

\* the names a meeting folder can have
MainFolderNames == {"m1", "m2", "Unknown"}

MainListings ==
    UNION {{l \in [1..n -> MainFolderNames] : \A i, j \in 1..n : l[i] = l[j] => i = j} :
           n \in 0..MaxMainFolders}

\* a mutation of is_exception: the handler is a bare except
is_exception_any(exc) == TRUE

\* isinstance(exc, Exception): what "except Exception" catches; KeyboardInterrupt
\* and SystemExit derive from BaseException only
is_exception(exc) == exc \notin {"KeyboardInterrupt", "SystemExit"}

\* the handlers of main(): print, then sys.exit(1); with the local name sys unbound
\* the handler dies of UnboundLocalError and the interpreter exits with status 1
handler_exit_code(bound) == IF bound THEN 1 ELSE 1

\* an exception leaves the try body of main(): the exit status of the process
\* (SystemExit passes the handlers and carries its own status)
MainRaises(exc, status) ==
    /\ mn_exception' = exc
    /\ exit_code' = IF exc = "SystemExit" THEN status ELSE handler_exit_code(sys_bound)
    /\ mn_pc' = "exited"

MainEmptyResults == [processed |-> 0, errors |-> 0, skipped |-> 0, results |-> <<>>]

\* _process_single_meeting seen from main: the result and the summary file under
\* outcome o; an exception that "except Exception" does not catch leaves the call
main_single_meeting(folder, file, force, o) ==
    IF o \in {"KeyboardInterrupt", "KeyboardInterrupt_partial"}
    THEN IF is_exception("KeyboardInterrupt")
         THEN [raised |-> FALSE, status |-> "error",
               file |-> IF o = "KeyboardInterrupt_partial" THEN 3 ELSE file]
         ELSE [raised |-> TRUE, status |-> "none",
               file |-> IF o = "KeyboardInterrupt_partial" THEN 3 ELSE file]
    ELSE IF file # 0 /\ ~force THEN [raised |-> FALSE, status |-> "skipped", file |-> file]
    ELSE IF o = "success" THEN [raised |-> FALSE, status |-> "success", file |-> 2]
    ELSE IF o = "error_partial" THEN [raised |-> FALSE, status |-> "error", file |-> 3]
    ELSE [raised |-> FALSE, status |-> "error", file |-> file]

\* the tally of the loop of _process_individual_summaries
main_tally(results, folder, status) ==
    LET r == [folder |-> folder, status |-> status]
    IN IF status = "success"
       THEN [results EXCEPT !.processed = @ + 1, !.results = Append(@, r)]
       ELSE IF status = "skipped"
       THEN [results EXCEPT !.skipped = @ + 1, !.results = Append(@, r)]
       ELSE [results EXCEPT !.errors = @ + 1, !.results = Append(@, r)]

\* ReportGenerator._extract_meeting_topic reads the summary file, inside try/except:,
\* when the folder name gives no topic
reads_file_for_topic(folder_name) == folder_name = "" \/ folder_name = "Unknown"

MainOff ==
    /\ mn_folders = <<>>
    /\ mn_input_exists = FALSE
    /\ mn_force = FALSE
    /\ mn_disk = [f \in MainFolderNames |-> 0]
    /\ mn_i = 0
    /\ mn_individual = MainEmptyResults
    /\ mn_results = "none"
    /\ sys_bound = FALSE
    /\ mn_exception = "none"
    /\ exit_code = -1
    /\ mn_entered = {}
    /\ mn_interrupted = 0
    /\ mn_snap = [f \in MainFolderNames |-> 0]
    /\ mn_interrupts = 0
    /\ mn_pc = "off"

MainInit ==
    /\ mn_folders \in MainListings
    /\ mn_input_exists \in BOOLEAN
    /\ ~mn_input_exists => mn_folders = <<>>
    /\ mn_force \in BOOLEAN
    /\ mn_disk \in [MainFolderNames -> {0, 1}]
    /\ mn_i = 0
    /\ mn_individual = MainEmptyResults
    /\ mn_results = "none"
    /\ sys_bound = FALSE
    /\ mn_exception = "none"
    /\ exit_code = -1
    /\ mn_entered = {}
    /\ mn_interrupted = 0
    /\ mn_snap = [f \in MainFolderNames |-> 0]
    /\ mn_interrupts = 0
    /\ mn_pc = "parse"

\* main(), up to Config(): parse_arguments, setup_logging, print_header, Config
MainParse ==
    /\ mn_pc = "parse"
    /\ \E o \in {"ok", "usage", "help", "KeyboardInterrupt", "Exception"} :
         /\ mn_interrupts' = IF o = "KeyboardInterrupt" THEN mn_interrupts + 1
                             ELSE mn_interrupts
         /\ IF o = "ok" THEN mn_pc' = "init" /\ UNCHANGED <<mn_exception, exit_code>>
            ELSE IF o = "usage" THEN MainRaises("SystemExit", 2)
            ELSE IF o = "help" THEN MainRaises("SystemExit", 0)
            ELSE MainRaises(o, 1)
    /\ UNCHANGED <<mn_folders, mn_input_exists, mn_force, mn_disk, mn_i, mn_individual,
                   mn_results, sys_bound, mn_entered, mn_interrupted, mn_snap>>
    /\ UNCHANGED nonMainVars

\* main(), from import sys to the construction of MeetingProcessor
MainSetUp ==
    /\ mn_pc = "init"
    /\ sys_bound' = TRUE
    /\ \E o \in {"ok", "KeyboardInterrupt", "Exception"} :
         /\ mn_interrupts' = IF o = "KeyboardInterrupt" THEN mn_interrupts + 1
                             ELSE mn_interrupts
         /\ IF o = "ok" THEN mn_pc' = "enter" /\ UNCHANGED <<mn_exception, exit_code>>
            ELSE /\ mn_exception' = o
                 /\ exit_code' = handler_exit_code(TRUE)
                 /\ mn_pc' = "exited"
    /\ UNCHANGED <<mn_folders, mn_input_exists, mn_force, mn_disk, mn_i, mn_individual,
                   mn_results, mn_entered, mn_interrupted, mn_snap>>
    /\ UNCHANGED nonMainVars

\* process_meetings up to the loop: the input folder is checked and listed
MainEnter ==
    /\ mn_pc = "enter"
    /\ mn_entered' = mn_entered \cup {"individual"}
    /\ IF ~mn_input_exists
       THEN MainRaises("FileNotFoundError", 1) /\ UNCHANGED <<mn_i, mn_results>>
       ELSE IF mn_folders = <<>>
       THEN /\ mn_results' = "no_files"
            /\ mn_pc' = "print"
            /\ UNCHANGED <<mn_i, mn_exception, exit_code>>
       ELSE /\ mn_i' = 1
            /\ mn_pc' = "individual"
            /\ UNCHANGED <<mn_results, mn_exception, exit_code>>
    /\ UNCHANGED <<mn_folders, mn_input_exists, mn_force, mn_disk, mn_individual,
                   sys_bound, mn_interrupted, mn_snap, mn_interrupts>>
    /\ UNCHANGED nonMainVars

\* one pass of the loop of _process_individual_summaries and, after the last folder,
\* the test of process_meetings on the tally
MainMeeting ==
    /\ mn_pc = "individual"
    /\ mn_i <= Len(mn_folders)
    /\ \E o \in {"success", "error", "error_partial", "KeyboardInterrupt",
                 "KeyboardInterrupt_partial"} :
         LET folder == mn_folders[mn_i]
             interrupt == o \in {"KeyboardInterrupt", "KeyboardInterrupt_partial"}
             r == main_single_meeting(folder, mn_disk[folder], mn_force, o)
             tallied == main_tally(mn_individual, folder, r.status)
         IN /\ mn_disk' = [mn_disk EXCEPT ![folder] = r.file]
            /\ mn_interrupts' = IF interrupt THEN mn_interrupts + 1 ELSE mn_interrupts
            /\ mn_interrupted' = IF interrupt THEN mn_i ELSE mn_interrupted
            /\ mn_snap' = IF interrupt THEN mn_disk ELSE mn_snap
            /\ IF r.raised
               THEN /\ MainRaises("KeyboardInterrupt", 1)
                    /\ UNCHANGED <<mn_i, mn_individual, mn_results>>
               ELSE /\ mn_individual' = tallied
                    /\ mn_i' = mn_i + 1
                    /\ UNCHANGED <<mn_exception, exit_code>>
                    /\ IF mn_i < Len(mn_folders)
                       THEN UNCHANGED <<mn_pc, mn_results>>
                       ELSE IF tallied.processed = 0 /\ tallied.skipped = 0
                       THEN mn_results' = "no_files" /\ mn_pc' = "print"
                       ELSE mn_pc' = "global" /\ UNCHANGED mn_results
    /\ UNCHANGED <<mn_folders, mn_input_exists, mn_force, sys_bound, mn_entered>>
    /\ UNCHANGED nonMainVars

\* _create_global_analysis: it returns a dict, or a keyboard interrupt leaves it
MainGlobal ==
    /\ mn_pc = "global"
    /\ mn_entered' = mn_entered \cup {"global"}
    /\ \E o \in {"returned", "KeyboardInterrupt"} :
         IF o = "returned"
         THEN mn_pc' = "report" /\ UNCHANGED <<mn_exception, exit_code, mn_interrupts>>
         ELSE MainRaises("KeyboardInterrupt", 1) /\ mn_interrupts' = mn_interrupts + 1
    /\ UNCHANGED <<mn_folders, mn_input_exists, mn_force, mn_disk, mn_i, mn_individual,
                   mn_results, sys_bound, mn_interrupted, mn_snap>>
    /\ UNCHANGED nonMainVars

\* _create_final_report and the return of process_meetings: a keyboard interrupt
\* leaves the phase, unless it is raised while _extract_meeting_topic reads a summary
MainReport ==
    /\ mn_pc = "report"
    /\ mn_entered' = mn_entered \cup {"report"}
    /\ \E generates \in BOOLEAN :
       \E o \in {"returned", "KeyboardInterrupt", "KeyboardInterrupt_topic"} :
         LET available == SelectSeq(mn_individual.results, IsAvailable)
             topic_read == /\ generates
                           /\ \E k \in 1..Len(available) :
                                  reads_file_for_topic(available[k].folder)
         IN /\ o = "KeyboardInterrupt_topic" => topic_read
            /\ mn_interrupts' = IF o = "returned" THEN mn_interrupts
                                ELSE mn_interrupts + 1
            /\ IF o = "KeyboardInterrupt"
               THEN MainRaises("KeyboardInterrupt", 1) /\ UNCHANGED mn_results
               ELSE /\ mn_results' = "success"
                    /\ mn_pc' = "print"
                    /\ UNCHANGED <<mn_exception, exit_code>>
    /\ UNCHANGED <<mn_folders, mn_input_exists, mn_force, mn_disk, mn_i, mn_individual,
                   sys_bound, mn_interrupted, mn_snap>>
    /\ UNCHANGED nonMainVars

\* print_results and the end of main()
MainPrint ==
    /\ mn_pc = "print"
    /\ \E o \in {"ok", "KeyboardInterrupt"} :
         IF o = "ok"
         THEN /\ exit_code' = 0
              /\ mn_pc' = "exited"
              /\ UNCHANGED <<mn_exception, mn_interrupts>>
         ELSE MainRaises("KeyboardInterrupt", 1) /\ mn_interrupts' = mn_interrupts + 1
    /\ UNCHANGED <<mn_folders, mn_input_exists, mn_force, mn_disk, mn_i, mn_individual,
                   mn_results, sys_bound, mn_entered, mn_interrupted, mn_snap>>
    /\ UNCHANGED nonMainVars

MainNext ==
    \/ MainParse
    \/ MainSetUp
    \/ MainEnter
    \/ MainMeeting
    \/ MainGlobal
    \/ MainReport
    \/ MainPrint

\* ------------------------------------------------------------- report phase
MaxReportResults == 3

ReportClasses == {"MeetingProcessor", "ConsolidatedSummarizer"}

\* the lists of individual results a report phase can be called with
ReportResultLists ==
    UNION {{[i \in 1..n |-> [folder |-> i, status |-> st[i]]] :
              st \in [1..n -> {"success", "skipped", "error"}]} :
           n \in 0..MaxReportResults}

\* the filter of ConsolidatedSummarizer._generate_pdf_report
IsSuccessful(r) == r.status = "success"

\* the filtering loop of the report phase of class c
filter_summaries(c, results) ==
    IF c = "MeetingProcessor" THEN SelectSeq(results, IsAvailable)
    ELSE SelectSeq(results, IsSuccessful)

ReportOff ==
    /\ rp_class = "MeetingProcessor"
    /\ rp_results = <<>>
    /\ rp_available = <<>>
    /\ rp_called = FALSE
    /\ rp_handed = <<>>
    /\ rp_result = "none"
    /\ rp_pc = "off"

ReportInit ==
    /\ rp_class \in ReportClasses
    /\ rp_results \in ReportResultLists
    /\ rp_available = <<>>
    /\ rp_called = FALSE
    /\ rp_handed = <<>>
    /\ rp_result = "none"
    /\ rp_pc = "filter"

\* the loop over individual_results
ReportFilter ==
    /\ rp_pc = "filter"
    /\ rp_available' = filter_summaries(rp_class, rp_results)
    /\ rp_pc' = "hand"
    /\ UNCHANGED <<rp_class, rp_results, rp_called, rp_handed, rp_result>>
    /\ UNCHANGED nonReportVars

\* no_summaries, or the call of generate_comprehensive_pdf, whose dict is returned
\* (an exception of the call becomes an error dict)
ReportHandOver ==
    /\ rp_pc = "hand"
    /\ IF rp_available = <<>>
       THEN /\ rp_result' = "no_summaries"
            /\ UNCHANGED <<rp_called, rp_handed>>
       ELSE /\ rp_called' = TRUE
            /\ rp_handed' = rp_available
            /\ \E o \in {"success", "markdown_only", "skipped", "disabled", "error"} :
                 rp_result' = o
    /\ rp_pc' = "returned"
    /\ UNCHANGED <<rp_class, rp_results, rp_available>>
    /\ UNCHANGED nonReportVars

ReportNext == ReportFilter \/ ReportHandOver

\* ----------------------------------------------------------- folder listing
MaxEntries == 3

\* the names the children of one entry of the input folder are drawn from ("sub" is
\* a directory that holds a transcript of its own)
ChildNames == {"a.vtt", "b.vtt", "notes.txt", "sub"}

\* an entry of the input folder: a directory with children, or a plain file
EntryChoices ==
    {[is_dir |-> TRUE, children |-> c] :
        c \in {{}, {"a.vtt"}, {"a.vtt", "b.vtt"}, {"notes.txt"}, {"sub"},
               {"a.vtt", "notes.txt"}}}
    \cup {[is_dir |-> FALSE, children |-> {}]}

PatternChoices == {<<"*.vtt">>, <<"*.vtt", "*.txt">>}

\* a mutation of meeting_files_of: every directory counts as holding a transcript
meeting_files_of_any(item, patterns) == item.children \cup {"a.vtt"}

\* the files item.glob(pattern) yields for the configured patterns
meeting_files_of(item, patterns) ==
    UNION {GlobSuffix(item.children, patterns[k]) : k \in 1..Len(patterns)}

FindOff ==
    /\ input_file_patterns = <<>>
    /\ fd_listing = <<>>
    /\ fd_i = 0
    /\ fd_found = <<>>
    /\ fd_j = 0
    /\ fd_results = MainEmptyResults
    /\ fd_status = "none"
    /\ fd_pc = "off"

FindInit ==
    /\ input_file_patterns \in PatternChoices
    /\ fd_listing \in UNION {[1..n -> EntryChoices] : n \in 0..MaxEntries}
    /\ fd_i = 1
    /\ fd_found = <<>>
    /\ fd_j = 1
    /\ fd_results = MainEmptyResults
    /\ fd_status = "none"
    /\ fd_pc = "find"

\* one pass of the loop of _find_meeting_folders; after the last entry the tally of
\* _process_individual_summaries is set up
FindEntry ==
    /\ fd_pc = "find"
    /\ fd_i <= Len(fd_listing)
    /\ LET item == fd_listing[fd_i]
           meeting_files == IF item.is_dir
                            THEN meeting_files_of(item, input_file_patterns)
                            ELSE {}
       IN fd_found' = IF meeting_files # {}
                      THEN Append(fd_found,
                                  [folder |-> fd_i,
                                   meeting_file |-> CHOOSE f \in meeting_files : TRUE])
                      ELSE fd_found
    /\ fd_i' = fd_i + 1
    /\ IF fd_i < Len(fd_listing) THEN UNCHANGED <<fd_pc, fd_results>>
       ELSE IF fd_found' = <<>>
       THEN fd_pc' = "guard" /\ fd_results' = MainEmptyResults
       ELSE /\ fd_pc' = "process"
            /\ fd_results' = InitialResults(Len(fd_found'))
    /\ UNCHANGED <<input_file_patterns, fd_listing, fd_j, fd_status>>
    /\ UNCHANGED nonFindVars

\* the input folder has no entry at all
FindNothing ==
    /\ fd_pc = "find"
    /\ fd_listing = <<>>
    /\ fd_pc' = "guard"
    /\ UNCHANGED <<input_file_patterns, fd_listing, fd_i, fd_found, fd_j, fd_results,
                   fd_status>>
    /\ UNCHANGED nonFindVars

\* one pass of the loop of _process_individual_summaries
FindProcess ==
    /\ fd_pc = "process"
    /\ fd_j <= Len(fd_found)
    /\ \E status \in {"success", "skipped", "error"} :
         fd_results' = main_tally(fd_results, fd_found[fd_j].folder, status)
    /\ fd_j' = fd_j + 1
    /\ fd_pc' = IF fd_j = Len(fd_found) THEN "guard" ELSE "process"
    /\ UNCHANGED <<input_file_patterns, fd_listing, fd_i, fd_found, fd_status>>
    /\ UNCHANGED nonFindVars

\* the guard of process_meetings and the status of the dict it returns
FindGuard ==
    /\ fd_pc = "guard"
    /\ fd_status' = IF NoFiles(fd_results) THEN "no_files" ELSE "success"
    /\ fd_pc' = "done"
    /\ UNCHANGED <<input_file_patterns, fd_listing, fd_i, fd_found, fd_j, fd_results>>
    /\ UNCHANGED nonFindVars

FindNext == FindEntry \/ FindNothing \/ FindProcess \/ FindGuard

\* --------------------------------------------------------- individual phase
MaxIndividualFolders == 2
MaxTranscriptSegments == 1

\* a meeting folder: the number of non-empty segments its transcript parses to,
\* and whether its summary file is in the output folder
FolderStates ==
    [segments : 0..MaxTranscriptSegments, summary_exists : BOOLEAN]

\* a mutation of get_transcript_metadata: the dict is the same for every transcript
get_transcript_metadata_full(segment_count) ==
    {"duration_seconds", "duration_formatted", "segment_count", "word_count",
     "estimated_speakers", "file_path"}

\* TranscriptParser.get_transcript_metadata: the keys of the dict it returns
get_transcript_metadata(segment_count) ==
    IF segment_count = 0
    THEN {"duration_seconds", "segment_count", "word_count"}
    ELSE {"duration_seconds", "duration_formatted", "segment_count", "word_count",
          "estimated_speakers", "file_path"}

\* a mutation of try_body_next: the remote call is made again after it returned
try_body_next_repeating(step) ==
    IF step = "parse" THEN "print"
    ELSE IF step = "print" THEN "keyframes"
    ELSE IF step = "keyframes" THEN "summary"
    ELSE IF step = "summary" THEN "summary"
    ELSE "returned"

\* the order of the statements of the try body of _process_single_meeting
try_body_next(step) ==
    IF step = "parse" THEN "print"
    ELSE IF step = "print" THEN "keyframes"
    ELSE IF step = "keyframes" THEN "summary"
    ELSE IF step = "summary" THEN "write"
    ELSE "returned"

IndividualOff ==
    /\ iv_folders = <<>>
    /\ iv_force = FALSE
    /\ iv_i = 1
    /\ iv_metadata = {}
    /\ iv_calls = <<>>
    /\ iv_wrote = <<>>
    /\ iv_results = None
    /\ iv_pc = "off"

\* _process_individual_summaries has found the meeting folders and set up the tally
IndividualInit ==
    /\ iv_folders \in UNION {[1..n -> FolderStates] : n \in 1..MaxIndividualFolders}
    /\ iv_force \in BOOLEAN
    /\ iv_i = 1
    /\ iv_metadata = {}
    /\ iv_calls = [k \in 1..Len(iv_folders) |-> 0]
    /\ iv_wrote = [k \in 1..Len(iv_folders) |-> FALSE]
    /\ iv_results = [processed |-> 0, errors |-> 0, skipped |-> 0, results |-> <<>>]
    /\ iv_pc = "check"

\* _process_single_meeting returns a dict with this status: the loop appends it,
\* counts it and goes to the next folder
IndividualReturns(status) ==
    /\ iv_results' =
           IF status = "success"
           THEN [iv_results EXCEPT !.processed = @ + 1, !.results = Append(@, status)]
           ELSE IF status = "skipped"
           THEN [iv_results EXCEPT !.skipped = @ + 1, !.results = Append(@, status)]
           ELSE [iv_results EXCEPT !.errors = @ + 1, !.results = Append(@, status)]
    /\ iv_i' = iv_i + 1
    /\ iv_pc' = IF iv_i = Len(iv_folders) THEN "done" ELSE "check"

\* a statement of the try body has run: on to the next one, or the success dict
IndividualProceeds(step) ==
    IF try_body_next(step) = "returned"
    THEN IndividualReturns("success")
    ELSE /\ iv_pc' = try_body_next(step)
         /\ UNCHANGED <<iv_i, iv_results>>

\* summary_path.exists() and not force_overwrite
IndividualCheck ==
    /\ iv_pc = "check"
    /\ IF iv_folders[iv_i].summary_exists /\ ~iv_force
       THEN IndividualReturns("skipped")
       ELSE iv_pc' = "parse" /\ UNCHANGED <<iv_i, iv_results>>
    /\ iv_metadata' = {}
    /\ UNCHANGED <<iv_folders, iv_force, iv_calls, iv_wrote>>
    /\ UNCHANGED nonIndividualVars

\* extract_full_transcript, parse_file, get_transcript_metadata; readable: the file
\* is there and webvtt can read it
IndividualParse ==
    /\ iv_pc = "parse"
    /\ \E readable \in BOOLEAN :
         IF readable
         THEN /\ iv_metadata' = get_transcript_metadata(iv_folders[iv_i].segments)
              /\ IndividualProceeds("parse")
         ELSE /\ iv_metadata' = iv_metadata
              /\ IndividualReturns("error")
    /\ UNCHANGED <<iv_folders, iv_force, iv_calls, iv_wrote>>
    /\ UNCHANGED nonIndividualVars

\* the print of metadata['word_count'] and metadata['duration_formatted']: a
\* missing key raises KeyError inside the try body
IndividualPrint ==
    /\ iv_pc = "print"
    /\ IF {"word_count", "duration_formatted"} \subseteq iv_metadata
       THEN IndividualProceeds("print")
       ELSE IndividualReturns("error")
    /\ UNCHANGED <<iv_folders, iv_force, iv_metadata, iv_calls, iv_wrote>>
    /\ UNCHANGED nonIndividualVars

\* the keyframes block of the try body
IndividualKeyframes ==
    /\ iv_pc = "keyframes"
    /\ \E ok \in BOOLEAN :
         IF ok THEN IndividualProceeds("keyframes") ELSE IndividualReturns("error")
    /\ UNCHANGED <<iv_folders, iv_force, iv_metadata, iv_calls, iv_wrote>>
    /\ UNCHANGED nonIndividualVars

\* ai_client.create_summary: one call of the remote summarizer
IndividualSummary ==
    /\ iv_pc = "summary"
    /\ iv_calls' = [iv_calls EXCEPT ![iv_i] = @ + 1]
    /\ \E ok \in BOOLEAN :
         IF ok THEN IndividualProceeds("summary") ELSE IndividualReturns("error")
    /\ UNCHANGED <<iv_folders, iv_force, iv_metadata, iv_wrote>>
    /\ UNCHANGED nonIndividualVars

\* file_writer.write_individual_summary and the success dict
IndividualWrite ==
    /\ iv_pc = "write"
    /\ \E ok \in BOOLEAN :
         IF ok /\ {"duration_formatted", "word_count", "file_path"} \subseteq iv_metadata
         THEN /\ iv_wrote' = [iv_wrote EXCEPT ![iv_i] = TRUE]
              /\ IndividualProceeds("write")
         ELSE /\ iv_wrote' = iv_wrote
              /\ IndividualReturns("error")
    /\ UNCHANGED <<iv_folders, iv_force, iv_metadata, iv_calls>>
    /\ UNCHANGED nonIndividualVars

IndividualNext ==
    \/ IndividualCheck
    \/ IndividualParse
    \/ IndividualPrint
    \/ IndividualKeyframes
    \/ IndividualSummary
    \/ IndividualWrite

\* -------------------------------------------------------- filename templates
TimestampPlaceholder == "{timestamp}"
\* get_iso_timestamp().replace(':', '-').replace('T', '_') at the time of the run
timestamp_now ==
    today \o <<"_", "1", "0", "-", "3", "0", "-", "0", "0">>

\* templates a configuration can set for processing.individual_summary_filename,
\* each with {folder_name}: the default, a prefix, the bare name, and two that also
\* hold {date} or {timestamp}
TemplateChoices ==
    {individual_summary_filename,
     <<"s", "_", FolderNamePlaceholder, ".", "m", "d">>,
     <<FolderNamePlaceholder, ".", "m", "d">>,
     <<DatePlaceholder, "_", FolderNamePlaceholder, ".", "m", "d">>,
     <<FolderNamePlaceholder, "_", TimestampPlaceholder, ".", "m", "d">>}

\* files of other origin the output folder can hold before the run
StrayNames == {global_summary_path, <<"n", "o", "t", "e", "s", ".", "t", "x", "t">>}

\* MeetingProcessor._format_filename: template.format(timestamp=..., date=...,
\* folder_name=...)
format_filename_vars(template, folder_name) ==
    ReplaceToken(ReplaceToken(ReplaceToken(template, TimestampPlaceholder, timestamp_now),
                              DatePlaceholder, today),
                 FolderNamePlaceholder, folder_name)

\* the pattern of _collect_summaries_from_folder:
\* individual_summary_filename.replace('{folder_name}', '*')
glob_pattern(template) == ReplaceToken(template, FolderNamePlaceholder, <<Star>>)

\* MeetingProcessor._extract_folder_name_from_file for a configured template
extract_folder_name(template, filename) ==
    LET pos == PlaceholderPositions(template)
    IN IF Cardinality(pos) = 1
       THEN LET p == CHOOSE i \in pos : TRUE
                prefix == SubSeq(template, 1, p - 1)
                suffix == SubSeq(template, p + 1, Len(template))
                f1 == IF StartsWith(filename, prefix)
                      THEN SubSeq(filename, Len(prefix) + 1, Len(filename))
                      ELSE filename
                f2 == IF EndsWith(f1, suffix) /\ suffix # <<>>
                      THEN SubSeq(f1, 1, Len(f1) - Len(suffix))
                      ELSE f1
            IN f2
       ELSE Stem(filename)

\* the records _collect_summaries_from_folder builds: one per readable file of the
\* output folder that matches the pattern
collect_with_template(template, d, unreadable) ==
    {[summary_path |-> n, folder_name |-> extract_folder_name(template, n)] :
        n \in {m \in d \ unreadable : GlobMatch(glob_pattern(template), m)}}

NotWritten == <<>>

\* the lists _find_meeting_folders can return: some folders, in some order
FolderOrders ==
    {l \in UNION {[1..k -> FolderNames] : k \in 1..MaxFolders} :
        \A i, j \in 1..Len(l) : l[i] = l[j] => i = j}

TemplateOff ==
    /\ tp_template = <<>>
    /\ tp_folders = <<>>
    /\ tp_disk = {}
    /\ tp_i = 1
    /\ tp_written = <<>>
    /\ tp_unreadable = {}
    /\ tp_collected = {}
    /\ tp_pc = "off"

TemplateInit ==
    /\ tp_template \in TemplateChoices
    /\ tp_folders \in FolderOrders
    /\ tp_disk \in SUBSET StrayNames
    /\ tp_i = 1
    /\ tp_written = [f \in FolderNames |-> NotWritten]
    /\ tp_unreadable = {}
    /\ tp_collected = {}
    /\ tp_pc = "individual"

\* _process_single_meeting with force_overwrite for one folder: the summary file is
\* written under the formatted name, or the meeting ends in error
TemplateWrite ==
    /\ tp_pc = "individual"
    /\ \E ok \in BOOLEAN :
         LET folder_name == tp_folders[tp_i]
             summary_filename == format_filename_vars(tp_template, folder_name)
         IN IF ok
            THEN /\ tp_disk' = tp_disk \cup {summary_filename}
                 /\ tp_written' = [tp_written EXCEPT ![folder_name] = summary_filename]
            ELSE UNCHANGED <<tp_disk, tp_written>>
    /\ tp_i' = tp_i + 1
    /\ tp_pc' = IF tp_i = Len(tp_folders) THEN "global" ELSE "individual"
    /\ UNCHANGED <<tp_template, tp_folders, tp_unreadable, tp_collected>>
    /\ UNCHANGED nonTemplateVars

\* _collect_summaries_from_folder in the global phase of the same run
TemplateCollect ==
    /\ tp_pc = "global"
    /\ \E unreadable \in {{}} \cup {{n} : n \in tp_disk} :
         /\ tp_unreadable' = unreadable
         /\ tp_collected' = collect_with_template(tp_template, tp_disk, unreadable)
    /\ tp_pc' = "collected"
    /\ UNCHANGED <<tp_template, tp_folders, tp_disk, tp_i, tp_written>>
    /\ UNCHANGED nonTemplateVars

TemplateNext ==
    \/ TemplateWrite
    \/ TemplateCollect

\* ----------------------------------------------------------- specifications
PipelineOff ==
    /\ disk = [n \in AllNames |-> 0]
    /\ globalIncluded = {}
    /\ inputFolders = <<>>
    /\ phase = "off"
    /\ run = 0
    /\ force_overwrite = FALSE
    /\ meeting_folders = <<>>
    /\ idx = 1
    /\ individual_results = None
    /\ global_result = None
    /\ pdf_result = None
    /\ result = None
    /\ lastOutcome = "none"
    /\ entered = {}
    /\ global_calls = 0
    /\ snap = disk
    /\ snapOk = FALSE
    /\ deletedSince = {}
    /\ deletes = 0
    /\ lastOp = "none"

Init ==
    /\ PipelineInit /\ SelectOff /\ FramesOff /\ ScoreOff /\ MeetingOff
    /\ ContextOff /\ RetryOff /\ MainOff /\ ReportOff /\ FindOff /\ IndividualOff
    /\ TemplateOff
Spec == Init /\ [][Next]_vars

InitSelect ==
    /\ PipelineOff /\ SelectInit /\ FramesOff /\ ScoreOff /\ MeetingOff
    /\ ContextOff /\ RetryOff /\ MainOff /\ ReportOff /\ FindOff /\ IndividualOff
    /\ TemplateOff
SpecSelect == InitSelect /\ [][SelectNext]_vars

InitFrames ==
    /\ PipelineOff /\ SelectOff /\ FramesInit /\ ScoreOff /\ MeetingOff
    /\ ContextOff /\ RetryOff /\ MainOff /\ ReportOff /\ FindOff /\ IndividualOff
    /\ TemplateOff
SpecFrames == InitFrames /\ [][FramesNext]_vars

InitScore ==
    /\ PipelineOff /\ SelectOff /\ FramesOff /\ ScoreInit /\ MeetingOff
    /\ ContextOff /\ RetryOff /\ MainOff /\ ReportOff /\ FindOff /\ IndividualOff
    /\ TemplateOff
SpecScore == InitScore /\ [][ScoreNext]_vars

InitMeeting ==
    /\ PipelineOff /\ SelectOff /\ FramesOff /\ ScoreOff /\ MeetingInit
    /\ ContextOff /\ RetryOff /\ MainOff /\ ReportOff /\ FindOff /\ IndividualOff
    /\ TemplateOff
SpecMeeting == InitMeeting /\ [][MeetingNext]_vars

InitContext ==
    /\ PipelineOff /\ SelectOff /\ FramesOff /\ ScoreOff /\ MeetingOff
    /\ ContextInit /\ RetryOff /\ MainOff /\ ReportOff /\ FindOff /\ IndividualOff
    /\ TemplateOff
SpecContext == InitContext /\ [][ContextNext]_vars

InitRetry ==
    /\ PipelineOff /\ SelectOff /\ FramesOff /\ ScoreOff /\ MeetingOff /\ ContextOff
    /\ RetryInit /\ MainOff /\ ReportOff /\ FindOff /\ IndividualOff /\ TemplateOff
SpecRetry == InitRetry /\ [][RetryNext]_vars

InitMain ==
    /\ PipelineOff /\ SelectOff /\ FramesOff /\ ScoreOff /\ MeetingOff /\ ContextOff
    /\ RetryOff /\ MainInit /\ ReportOff /\ FindOff /\ IndividualOff /\ TemplateOff
SpecMain == InitMain /\ [][MainNext]_vars

InitReport ==
    /\ PipelineOff /\ SelectOff /\ FramesOff /\ ScoreOff /\ MeetingOff /\ ContextOff
    /\ RetryOff /\ MainOff /\ ReportInit /\ FindOff /\ IndividualOff /\ TemplateOff
SpecReport == InitReport /\ [][ReportNext]_vars

InitFind ==
    /\ PipelineOff /\ SelectOff /\ FramesOff /\ ScoreOff /\ MeetingOff /\ ContextOff
    /\ RetryOff /\ MainOff /\ ReportOff /\ FindInit /\ IndividualOff /\ TemplateOff
SpecFind == InitFind /\ [][FindNext]_vars

InitIndividual ==
    /\ PipelineOff /\ SelectOff /\ FramesOff /\ ScoreOff /\ MeetingOff /\ ContextOff
    /\ RetryOff /\ MainOff /\ ReportOff /\ FindOff /\ IndividualInit /\ TemplateOff
SpecIndividual == InitIndividual /\ [][IndividualNext]_vars

InitTemplate ==
    /\ PipelineOff /\ SelectOff /\ FramesOff /\ ScoreOff /\ MeetingOff /\ ContextOff
    /\ RetryOff /\ MainOff /\ ReportOff /\ FindOff /\ IndividualOff /\ TemplateInit
SpecTemplate == InitTemplate /\ [][TemplateNext]_vars

\* ------------------------------------------------------------------- claims
AfterIndividualPhase == phase \in {"guard", "global", "report", "done"}

\* C1: the tally the individual phase returns, over any number of meeting folders
\* (zero included) and any mix of outcomes, carries total_folders and satisfies
\* processed + skipped + errors = total_folders.
C1_CountInvariant ==
    AfterIndividualPhase =>
        /\ "total_folders" \in DOMAIN individual_results
        /\ individual_results.processed + individual_results.skipped
               + individual_results.errors
           = individual_results.total_folders

\* the second of two runs without force_overwrite has finished its individual phase,
\* and nothing but the pipeline touched the output folder in between
SecondRunUnforced == phase = "guard" /\ run >= 2 /\ snapOk /\ ~force_overwrite

\* C2 (amended): after the second of two individual phases without force_overwrite,
\* every summary file that was there after the first is unchanged, only meetings
\* without a summary file are processed, and each meeting that had one is reported
\* skipped, or error when an exception left the single-folder handler before its
\* existence check.
C2_IdempotentUnlessRaised ==
    SecondRunUnforced =>
        /\ \A n \in IndividualNames : Exists(snap, n) => disk[n] = snap[n]
        /\ \A i \in 1..Len(meeting_folders) :
             LET r == individual_results.results[i]
                 had == Exists(snap, summary_path(meeting_folders[i]))
             IN /\ r.status = "success" => ~had
                /\ had => \/ r.status = "skipped"
                          \/ /\ r.status = "error"
                             /\ r.folder = FolderPath(meeting_folders[i])

\* C2 witness: in the second run one meeting is skipped over its summary of the
\* first run and another, which had none, is processed
C2_Witness ==
    /\ SecondRunUnforced
    /\ \E i, j \in 1..Len(meeting_folders) :
         /\ individual_results.results[i].status = "skipped"
         /\ snap[summary_path(meeting_folders[i])] = Stamp(1)
         /\ individual_results.results[j].status = "success"

\* C2: after the second of two individual phases without force_overwrite, every
\* summary file that was there after the first is byte-identical and its meeting is
\* reported skipped.
C2_Idempotent ==
    SecondRunUnforced =>
        \A i \in 1..Len(meeting_folders) :
            LET n == summary_path(meeting_folders[i])
            IN Exists(snap, n) =>
                   /\ disk[n] = snap[n]
                   /\ individual_results.results[i].status = "skipped"

FailedSteps ==
    {"parse_error", "keyframe_error", "remote_error", "write_error",
     "write_error_partial"}

\* C3: each iteration of the individual phase's loop adds exactly one result, for
\* the folder at hand, and leaves the results of the other folders as they were; a
\* failure at a step of that folder is an error result for it and counts as one
\* error; the loop ends only after the last enumerated folder.
C3_FailureIsolated ==
    [][phase = "individual" =>
          LET before == individual_results.results
              after == individual_results'.results
              folder_name == meeting_folders[idx]
          IN /\ Len(after) = Len(before) + 1
             /\ SubSeq(after, 1, Len(before)) = before
             /\ Len(after) = idx
             /\ after[idx].folder \in {folder_name, FolderPath(folder_name)}
             /\ lastOutcome' \in FailedSteps =>
                    /\ after[idx] = ErrorResult(folder_name)
                    /\ individual_results'.errors = individual_results.errors + 1
                    /\ individual_results'.processed = individual_results.processed
                    /\ individual_results'.skipped = individual_results.skipped
             /\ phase' = "guard" <=> idx = Len(meeting_folders)
             /\ phase' \in {"guard", "individual"}]_vars

\* C3 witness: the first folder failed at the remote call and the folder after it
\* was processed
C3_Witness ==
    /\ phase = "guard"
    /\ Len(meeting_folders) >= 2
    /\ individual_results.results[1].status = "error"
    /\ individual_results.results[2].status = "success"
    /\ lastOutcome = "success"

ReportNames == {global_summary_path, pdf_filename, markdown_filename}
RunReturned == phase = "done" /\ lastOp = "run"

\* C4: a run returns no_files, with global_result None, no global or report phase
\* entered, no global remote call and no global or report file written, exactly
\* when the individual phase ended with processed = 0 and skipped = 0; every other
\* run returns success after both phases.
C4_NoFilesGuard ==
    RunReturned =>
        /\ result.status \in {"no_files", "success"}
        /\ result.status = "no_files" <=>
               (individual_results.processed = 0 /\ individual_results.skipped = 0)
        /\ result.status = "no_files" =>
               /\ result.global_result = None
               /\ entered \cap {"global", "report"} = {}
               /\ global_calls = 0
               /\ \A n \in ReportNames : disk[n] = snap[n]
        /\ result.status = "success" => {"global", "report"} \subseteq entered

\* C4 witness: a run over an input folder without qualifying subfolders returned
C4_Witness ==
    /\ RunReturned
    /\ meeting_folders = <<>>
    /\ result.status = "no_files"

\* C5: whenever the individual summary file of a meeting of the run is in the output
\* folder at the end of the individual phase, freshly written or there before, the
\* run enters the global phase, whatever failed for the meetings.
C5_GlobalPhaseEntered ==
    (RunReturned
     /\ \E i \in 1..Len(meeting_folders) :
            Exists(snap, summary_path(meeting_folders[i])))
    => "global" \in entered

\* the global phase was re-run after the summary file of a meeting that has a result
\* of the individual phase was deleted
GlobalRerun ==
    /\ lastOp = "rerun_global"
    /\ \E i \in 1..Len(individual_results.results) :
         individual_results.results[i].folder \in deletedSince

C7_OneRecordPerSummaryFile ==
    (phase = "report" /\ global_result.status = "success") =>
        global_result.summaries_processed
        = Cardinality({n \in IndividualNames : Exists(disk, n)})

\* C8: the image file names of the returned keyframes carry the ordinals 1..K,
\* K the number of keyframes returned.
C8_OrdinalsContiguous ==
    fr_pc = "returned" =>
        {OrdinalOf(extracted_frames[k].image_path) : k \in 1..Len(extracted_frames)}
        = 1..Len(extracted_frames)

\* C9: when there are more candidates than max_frames, any two candidates of the
\* selection are at least 60 seconds apart.
C9_CandidateSpacing ==
    (sel_pc = "done" /\ Len(candidates) > max_frames) =>
        \A a, b \in 1..Len(selection) :
            a # b =>
                Abs(selection[a].timestamp_seconds - selection[b].timestamp_seconds)
                >= 60

\* C9 witness: three candidates for two frames, one of them turned down for being
\* too close, two selected
C9_Witness ==
    /\ sel_pc = "done"
    /\ Len(candidates) = 3
    /\ max_frames = 2
    /\ ci = 4
    /\ Len(selection) = 2

\* C10: the selection is in ascending order of timestamp, whether or not there are
\* more candidates than max_frames.
C10_Chronological ==
    sel_pc = "done" =>
        \A a, b \in 1..Len(selection) :
            a < b => selection[a].timestamp_seconds <= selection[b].timestamp_seconds

\* C11: the selection holds at most max_frames candidates, for every candidate list
\* and every max_frames >= 0.
C11_AtMostMaxFrames == sel_pc = "done" => Len(selection) <= max_frames

\* C12: the relevance score returned for a segment is at least 0.0 and at most 1.0,
\* however many keywords and bonuses apply.
C12_ScoreBounded ==
    sc_pc = "done" => (0 <= sc_result.score /\ sc_result.score <= 100)

\* C12 witness: the keywords and bonuses of the segment add up to more than 1.0
C12_Witness == sc_pc = "done" /\ score > 100 /\ sc_result.score = 100

\* the categories with at least one keyword in the lowered text of the segment
MatchedCategories ==
    {c \in 1..Len(relevance_keywords) :
        \E k \in 1..Len(relevance_keywords[c].keywords) :
            Contains(text_lower(sc_text), relevance_keywords[c].keywords[k])}

HasVideoSuffix(f) ==
    /\ Len(f) >= 4
    /\ SubSeq(f, Len(f) - 3, Len(f)) \in {".mp4", ".mov", ".avi", ".mkv"}

NoVideoRun ==
    /\ m_pc = "returned"
    /\ enable_keyframes
    /\ \A f \in m_files : ~HasVideoSuffix(f)
    /\ m_fault \notin {"parse", "summary", "write"}

C14_NoVideoSucceeds ==
    NoVideoRun => /\ m_result.status = "success"
                  /\ m_result.keyframes_extracted = 0

C14_Witness ==
    /\ NoVideoRun
    /\ "REC.MP4" \in m_files
    /\ m_result.status = "success"
    /\ m_result.keyframes_extracted = 0

\* C15: a failure inside extract_keyframes never makes _process_single_meeting
\* return an error result.
C15_KeyframesNeverBlock ==
    ~(m_pc = "returned" /\ m_fault = "keyframes" /\ m_result.status = "error")

\* C16: for a target index in range, the context string contains the text of every
\* segment whose [start, end] overlaps [target.start - window, target.end + window]
\* (boundaries inclusive) and of no other segment, in ascending order of start time.
Overlaps(segment, target, window) ==
    /\ segment.end >= target.start - window
    /\ segment.start <= target.end + window

\* the first position of sub in text
IndexOf(text, sub) ==
    CHOOSE i \in 1..Len(text) :
        /\ SubSeq(text, i, i + Len(sub) - 1) = sub
        /\ \A j \in 1..(i - 1) : SubSeq(text, j, j + Len(sub) - 1) # sub

ContextReturned == cx_pc = "done" /\ target_segment_index < Len(cx_segments)

C16_ContextWindow ==
    ContextReturned =>
        LET target == cx_segments[target_segment_index + 1]
            inside == {i \in 1..Len(cx_segments) :
                         Overlaps(cx_segments[i], target, caption_context_window)}
        IN /\ \A i \in 1..Len(cx_segments) :
                  i \in inside <=> Contains(cx_result, cx_segments[i].text)
           /\ \A i, j \in inside :
                  cx_segments[i].start < cx_segments[j].start =>
                      IndexOf(cx_result, cx_segments[i].text)
                          < IndexOf(cx_result, cx_segments[j].text)

C16_Witness ==
    /\ ContextReturned
    /\ Len(cx_segments) = 3
    /\ <<cx_segments[1].start, cx_segments[1].end>> = <<0, 5>>
    /\ <<cx_segments[2].start, cx_segments[2].end>> = <<10, 15>>
    /\ <<cx_segments[3].start, cx_segments[3].end>> = <<20, 25>>
    /\ target_segment_index = 1
    /\ caption_context_window = 6
    /\ \A i \in 1..3 : Contains(cx_result, cx_segments[i].text)

\* C17: one _invoke_model call makes at most 4 attempts; every attempt that is
\* followed by another one was throttled, and retry k+1 is preceded by a sleep of
\* 60 * 2^k seconds plus a jitter in [0, 10]; the throttling error surfaces when the
\* 4th attempt is throttled, any other error surfaces in the attempt it occurs, and
\* a response ends the loop.
C17_BoundedRetry ==
    /\ Len(rt_history) <= 4
    /\ \A k \in 1..(Len(rt_history) - 1) : rt_history[k] = "ThrottlingException"
    /\ Len(rt_sleeps) = attempt
    /\ \A k \in 0..(Len(rt_sleeps) - 1) :
           /\ rt_sleeps[k + 1] >= 60 * Pow2(k)
           /\ rt_sleeps[k + 1] <= 60 * Pow2(k) + 10
    /\ rt_pc \in {"except", "returned", "raised"} => Len(rt_history) = attempt + 1
    /\ rt_pc = "raised" /\ rt_error = "ThrottlingException" => Len(rt_history) = 4
    /\ rt_pc = "returned" <=> (rt_history # <<>> /\ rt_history[Len(rt_history)] = "none")
    /\ rt_pc = "invoke" =>
           (rt_history = <<>> \/ rt_history[Len(rt_history)] = "ThrottlingException")

C17_Witness ==
    /\ rt_pc = "raised"
    /\ rt_history = <<"ThrottlingException", "ThrottlingException",
                      "ThrottlingException", "ThrottlingException">>
    /\ rt_sleeps = <<60, 124, 250>>

\* C18: the process exits with code 0 whenever the pipeline returned a result
\* (success or no_files, whatever the meetings came to) and nothing was raised
\* afterwards, and with a non-zero code when a keyboard interrupt was raised, when the
\* input folder is missing, and when any other exception reaches main.
C18_ExitCodes ==
    mn_pc = "exited" =>
        /\ (mn_results # "none" /\ mn_exception = "none") => exit_code = 0
        /\ mn_exception \in {"KeyboardInterrupt", "FileNotFoundError", "Exception"}
               => exit_code # 0
        /\ mn_interrupts > 0 => exit_code # 0

\* the part of C18 that holds: the exit code of every run that ends in a handler of
\* main or at the end of main
C18_HandledExits ==
    mn_pc = "exited" =>
        /\ (mn_results # "none" /\ mn_exception = "none") => exit_code = 0
        /\ mn_exception \in {"KeyboardInterrupt", "FileNotFoundError", "Exception"}
               => exit_code # 0

\* C19: a keyboard interrupt raised while meeting k is processed ends the process
\* with a non-zero exit code; meeting k gets no result, no later meeting is
\* processed, the global and report phases are not entered, and the summary files of
\* the meetings before k are as they were.
C19_InterruptAbandons ==
    mn_interrupted > 0 =>
        /\ mn_pc = "exited"
        /\ mn_exception = "KeyboardInterrupt"
        /\ exit_code # 0
        /\ Len(mn_individual.results) = mn_interrupted - 1
        /\ mn_i = mn_interrupted
        /\ mn_entered \cap {"global", "report"} = {}
        /\ \A j \in 1..(mn_interrupted - 1) :
               mn_disk[mn_folders[j]] = mn_snap[mn_folders[j]]

C19_Witness ==
    /\ mn_interrupted = 2
    /\ mn_disk[mn_folders[1]] = 2
    /\ mn_disk[mn_folders[2]] = 3
    /\ exit_code = 1

\* C20: the report phase hands to the report assembler exactly the meetings whose
\* individual result is success or skipped, in the order of the results, and returns
\* no_summaries without calling the assembler when there is none.
AvailableMeetings ==
    SelectSeq(rp_results, LAMBDA r : r.status \in {"success", "skipped"})

HandsOverAvailable ==
    IF AvailableMeetings = <<>>
    THEN ~rp_called /\ rp_result = "no_summaries"
    ELSE rp_called /\ rp_handed = AvailableMeetings

C20_ReportHandsAvailable == rp_pc = "returned" => HandsOverAvailable

\* the part of C20 that holds: the report phase of MeetingProcessor
C20_MeetingProcessorReport ==
    (rp_pc = "returned" /\ rp_class = "MeetingProcessor") => HandsOverAvailable

\* C21: when the global summary file exists and force_overwrite is false, the global
\* phase returns skipped, makes no remote call and leaves the output folder as it is,
\* also after summaries were written in the same run; with force_overwrite true it is
\* not skipped, and a successful generation rewrites the file.
GlobalPhaseStep == phase = "global" /\ phase' = "report"

C21_GlobalSkip ==
    [][GlobalPhaseStep =>
         IF Exists(disk, global_summary_path) /\ ~force_overwrite
         THEN /\ global_result'.status = "skipped"
              /\ global_calls' = global_calls
              /\ disk' = disk
              /\ globalIncluded' = globalIncluded
         ELSE /\ global_result'.status # "skipped"
              /\ global_result'.status = "success" =>
                     /\ disk'[global_summary_path] = Stamp(run)
                     /\ global_calls' = global_calls + 1]_vars

C21_Witness ==
    /\ phase = "report"
    /\ ~force_overwrite
    /\ global_result.status = "skipped"
    /\ individual_results.processed > 0
    /\ global_calls = 0
    /\ disk[global_summary_path] = 1

\* C22: the meeting folders are exactly the immediate subdirectories that hold a file
\* matching an input pattern, in listing order; any other entry contributes no result
\* and counts neither in total_folders nor as an error, and the run ends with status
\* success when one of the meeting folders is processed or skipped.
HoldsTranscript(item) ==
    /\ item.is_dir
    /\ \E f \in item.children, k \in 1..Len(input_file_patterns) :
           LET suffix == SubSeq(input_file_patterns[k], 2, Len(input_file_patterns[k]))
           IN Len(f) >= Len(suffix)
              /\ SubSeq(f, Len(f) - Len(suffix) + 1, Len(f)) = suffix

ExpectedFolders ==
    SelectSeq([i \in 1..Len(fd_listing) |-> i],
              LAMBDA i : HoldsTranscript(fd_listing[i]))

C22_OnlyMeetingFolders ==
    fd_pc = "done" =>
        /\ [k \in 1..Len(fd_found) |-> fd_found[k].folder] = ExpectedFolders
        /\ [k \in 1..Len(fd_results.results) |-> fd_results.results[k].folder]
               = ExpectedFolders
        /\ fd_results.processed + fd_results.skipped + fd_results.errors
               = Len(ExpectedFolders)
        /\ ExpectedFolders # <<>> => fd_results.total_folders = Len(ExpectedFolders)
        /\ fd_results.processed + fd_results.skipped > 0 => fd_status = "success"

C22_Witness ==
    /\ fd_pc = "done"
    /\ Len(fd_listing) = 3
    /\ fd_listing[2] = [is_dir |-> TRUE, children |-> {}]
    /\ Len(fd_found) = 2
    /\ fd_results.processed = 2
    /\ fd_results.errors = 0
    /\ fd_status = "success"

\* C23: the length bonus is 0.1 for a segment of more than 20 and at most 50 words,
\* 0.2 for one of more than 50 words, and 0 for one of 20 words or fewer.
ExpectedLengthBonus(word_count) ==
    IF word_count > 50 THEN 20
    ELSE IF word_count > 20 THEN 10
    ELSE 0

C23_LengthBonus ==
    [][sc_pc = "bonus" =>
         score' = score + ExpectedLengthBonus(WordCount(sc_text))
                        + SectionStartBonus(sc_text, sc_last)]_vars

\* the part of C23 that holds: the bonus of the segments of at most 50 words
C23_LengthBonusUpTo50 ==
    [][(sc_pc = "bonus" /\ WordCount(sc_text) <= 50) =>
         score' = score + ExpectedLengthBonus(WordCount(sc_text))
                        + SectionStartBonus(sc_text, sc_last)]_vars

RECURSIVE SumOfWeights(_)
\* the weights of a set of categories, added up
SumOfWeights(cs) ==
    IF cs = {} THEN 0
    ELSE LET c == CHOOSE x \in cs : TRUE
         IN CategoryWeight(relevance_keywords[c].category) + SumOfWeights(cs \ {c})

\* C24: before the bonuses and the cap, the score is the sum of the weights of the
\* categories that have at least one keyword in the lowered text, each counted once.
C24_WeightOncePerCategory ==
    sc_pc = "bonus" => score = SumOfWeights(MatchedCategories)

\* C25: whenever _extract_frames_from_video has opened the video, the handle is
\* released by the time the function returns, on the normal path and on every
\* exception raised while reading the properties or extracting frames
C25_HandleReleased == fr_pc = "returned" => cap # "open"

\* the part of C25 the code keeps: a return from the end of the loop, no exception
\* raised, has released the handle
C25_ReleasedOnNormalPath ==
    [][fr_pc = "loop" /\ fr_pc' = "returned" /\ fi > Len(fr_candidates)
         => cap' = "released"]_vars

\* the order in which process_meetings moves from one position to the next; "guard"
\* is the return of the individual phase, "done" the return of the run
PhaseEdges ==
    {<<"idle", "individual">>, <<"idle", "guard">>,
     <<"done", "individual">>, <<"done", "guard">>,
     <<"individual", "guard">>,
     <<"guard", "done">>, <<"guard", "global">>,
     <<"global", "report">>,
     <<"report", "done">>}

AllFoldersRecorded ==
    /\ idx = Len(meeting_folders) + 1
    /\ Len(individual_results.results) = Len(meeting_folders)

PhaseOrderInv ==
    /\ phase \in {"individual", "guard"} => entered = {"init", "individual"}
    /\ phase = "guard" => AllFoldersRecorded
    /\ phase = "global" =>
           /\ entered = {"init", "individual"}
           /\ AllFoldersRecorded
    /\ phase = "report" =>
           /\ entered = {"init", "individual", "global"}
           /\ global_result # None
           /\ global_result.status \in {"success", "skipped", "no_summaries", "error"}
    /\ phase = "done" =>
           \/ result.status = "no_files" /\ entered = {"init", "individual"}
           \/ /\ result.status = "success"
              /\ entered = {"init", "individual", "global", "report"}
              /\ pdf_result # None

\* C26: in every run of process_meetings the phases occur in the order Init,
\* IndividualPhase, then either the return of no_files or GlobalPhase followed by
\* ReportPhase, then Done: the global phase starts only after every meeting folder
\* has a recorded result, the report phase only after the global phase returned,
\* with any status, and no phase is entered twice in a run.
C26_PhaseOrder ==
    /\ []PhaseOrderInv
    /\ [][phase' # phase => <<phase, phase'>> \in PhaseEdges]_vars
    /\ [][phase' = "global" /\ phase # "global" => "global" \notin entered]_vars
    /\ [][phase' = "report" /\ phase # "report" => "report" \notin entered]_vars

\* C26 witness: a run over two folders went through all phases and returned although
\* the global phase returned error
C26_Witness ==
    /\ RunReturned
    /\ Len(meeting_folders) = 2
    /\ result.status = "success"
    /\ global_result.status = "error"
    /\ entered = {"init", "individual", "global", "report"}

\* one folder was processed in this step
FolderStep == phase = "individual" /\ idx' = idx + 1

\* the outcomes of a meeting that end before the summary file is written
NoWriteOutcomes == {"skipped", "parse_error", "keyframe_error", "remote_error"}

\* C27: a meeting whose result is skipped, or error because parsing, keyframe
\* extraction or the remote call failed, leaves its summary file, and every other
\* file of the output folder, exactly as it was: with force_overwrite a failed
\* regeneration neither deletes nor truncates the existing summary.
C27_FailedMeetingKeepsFile ==
    [][FolderStep /\ lastOutcome' \in NoWriteOutcomes => disk' = disk]_vars

\* C27 witness: with force_overwrite the remote call failed for a meeting whose
\* summary file was there before the run, and the file still has its old content
C27_Witness ==
    /\ phase \in {"individual", "guard"}
    /\ idx > 1
    /\ force_overwrite
    /\ lastOutcome = "remote_error"
    /\ individual_results.results[idx - 1].status = "error"
    /\ disk[summary_path(meeting_folders[idx - 1])] = 1

\* the folders that have a recorded result
IndividualDone == 1..Len(iv_results.results)

\* C28: in one run of the individual phase the remote summarizer is called exactly
\* once for each meeting that ends success, at most once for each meeting that ends
\* error, and never for a meeting that ends skipped.
C28_RemoteCallsPerMeeting ==
    iv_pc # "off" =>
        /\ \A k \in IndividualDone :
             /\ iv_results.results[k] = "success" => iv_calls[k] = 1
             /\ iv_results.results[k] = "error" => iv_calls[k] <= 1
             /\ iv_results.results[k] = "skipped" => iv_calls[k] = 0
        /\ \A k \in 1..Len(iv_folders) :
             /\ iv_calls[k] <= 1
             /\ k \notin IndividualDone /\ k # iv_i => iv_calls[k] = 0

\* C28 witness: a run over two folders has ended, one meeting skipped without a
\* call, the other summarized with one call
C28_Witness ==
    /\ iv_pc = "done"
    /\ iv_results.results = <<"skipped", "success">>
    /\ iv_calls = <<0, 1>>

\* C29: a meeting folder whose transcript is parsed to zero non-empty segments ends
\* with status error, without the remote summarizer being called and without a
\* summary file being written, and the remaining folders are still processed.
C29_EmptyTranscriptIsError ==
    iv_pc # "off" =>
        /\ \A k \in IndividualDone :
             iv_folders[k].segments = 0 /\ iv_results.results[k] # "skipped" =>
                 /\ iv_results.results[k] = "error"
                 /\ iv_calls[k] = 0
                 /\ ~iv_wrote[k]
        /\ iv_pc = "done" <=> Len(iv_results.results) = Len(iv_folders)
        /\ iv_pc # "done" => iv_i = Len(iv_results.results) + 1

\* C29 witness: the first of two folders has a transcript without segments and ended
\* error although its summary was to be regenerated; the second was summarized
C29_Witness ==
    /\ iv_pc = "done"
    /\ iv_force
    /\ iv_folders[1].segments = 0
    /\ iv_folders[1].summary_exists
    /\ iv_results.results = <<"error", "success">>
    /\ iv_calls = <<0, 1>>
    /\ iv_wrote = <<FALSE, TRUE>>

\* every readable summary file written in the individual phase is among the records
\* collected, with the folder name of its meeting
WrittenAreCollected ==
    \A f \in FolderNames :
        tp_written[f] # NotWritten /\ tp_written[f] \notin tp_unreadable =>
            [summary_path |-> tp_written[f], folder_name |-> f] \in tp_collected

HasExtraPlaceholder(template) ==
    \E i \in 1..Len(template) : template[i] \in {DatePlaceholder, TimestampPlaceholder}

\* C30: for every configured individual-summary filename template that contains
\* {folder_name}, alone or together with {date} or {timestamp}, each summary file
\* written by the individual phase is collected by the global phase of the same run,
\* with a recovered folder name equal to the meeting's folder name.
C30_TemplateRoundTrip ==
    (tp_pc = "collected" /\ PlaceholderPositions(tp_template) # {})
        => WrittenAreCollected

\* the part of C30 the code keeps: templates whose only placeholder is {folder_name}
C30_FolderNameOnlyRoundTrip ==
    (tp_pc = "collected" /\ ~HasExtraPlaceholder(tp_template)) => WrittenAreCollected

\* a file written under a template with {date} or {timestamp} is never collected
C30_ExtraPlaceholderNeverCollected ==
    (tp_pc = "collected" /\ HasExtraPlaceholder(tp_template)) =>
        \A f \in FolderNames :
            \A r \in tp_collected : r.summary_path # tp_written[f]

====
